---- MODULE Spec2Model ----
(***************************************************************************)
(* A model of the gotreesitter runtime core: the reference-counted node    *)
(* arena and its slice slabs (arena.go), the external scanner VM           *)
(* (external_vm.go), the GLR stack merge (glr.go), the incremental reuse   *)
(* engine (incremental.go), the hand-written token sources                 *)
(* (grammars/*_lexer.go) and the lexer-table extraction (unnamed/part_001).*)
(* Each subsystem has its own variables and its own specification; a       *)
(* specification parks the variables of the other subsystems.              *)
(***************************************************************************)
EXTENDS Integers, Sequences, FiniteSets, TLC

VARIABLES
    \* ---- node arena (arena.go) ----
    refs,        \* nodeArena.refs (atomic.Int32)
    used,        \* nodeArena.used: nodes handed out since the last reset
    pool,        \* number of entries of this arena in its class pool
    held,        \* holder -> references to the arena that holder owns
    relpc,       \* holder -> position inside Release: "idle", "reset", "put"
    arenaHist,   \* history: counters of acquires/resets/puts and the last operation
    \* ---- external scanner VM (external_vm.go) ----
    vmProgram,   \* the ExternalVMProgram handed to NewExternalVMScanner
    vmBuilt,     \* "unbuilt", "ok" (scanner returned) or "error" (error, no scanner)
    vmPay,       \* payload -> externalVMPayload.State
    vmBuf,       \* the byte buffer of Serialize / Deserialize
    vmRun,       \* the activation of Scan: pc, steps, state, result
    vmLexer,     \* the ExternalLexer of the scan: input, position, result symbol
    vmHist,      \* history: what was serialized, which payloads were restored
    \* ---- GLR stack merging (glr.go) ----
    stacks,        \* the parser's list of glrStack and the array that backs it
    mergeScratch,  \* the parser's glrMergeScratch
    mergePc,       \* "input": stacks await a merge; "merged": a merge returned
    mergeHist,     \* history: the list given to the last merge and what it returned
    \* ---- incremental reuse engine (incremental.go) ----
    incrPc,      \* "start", "parsed", "edited" or "reparsed"
    incrCfg,     \* how Tree.Edit treats a touching node; whether the token source can skip
    incrTree,    \* the old Tree: root, source snapshot, pending edits
    incrText,    \* the text as edited so far
    incrResult,  \* the Tree returned by ParseIncremental
    incrHist,    \* history: the old tree and the work of the last ParseIncremental
    \* ---- arena slice slabs (arena.go) ----
    childSlabs,       \* nodeArena.childSlabs: per slab its data cells and used mark
    fieldSlabs,       \* nodeArena.fieldSlabs
    childSlabCursor,  \* nodeArena.childSlabCursor (0-based)
    fieldSlabCursor,  \* nodeArena.fieldSlabCursor (0-based)
    slabHist,         \* history: slices handed out since the last reset, the last call
    \* ---- hand-written token sources (grammars/*_lexer.go) ----
    lexTs,            \* the token source the constructor returned (or none)
    lexTok,           \* the token the last Next / SkipToByte returned
    lexHist,          \* history: the constructor call, the last call, the run of Next calls
    \* ---- lexer-table extraction (unnamed/part_001) ----
    csPc,             \* "source", "extracted" (character sets read) or "parsed" (condition read)
    csEntries,        \* the entries {lo, hi} of the character set the source declares
    csSets,           \* charSets: set name -> normalized ranges
    csState,          \* the LexState the case block is parsed into
    csHist,           \* history: the set name of the condition, whether parsing failed
    \* ---- stack entry scratch (glr.go) ----
    esSlabs,          \* glrEntryScratch.slabs: per slab its data cells and used mark
    esStacks,         \* the stacks allocated from the scratch: entries slice, score, flags
    esHist,           \* history: the entries each stack is expected to hold, the last call
    \* ---- reuse cursor and grafting, call by call (incremental.go) ----
    ruPc,             \* position of the session: start, parsed, edited, open
    ruTree,           \* the old tree, with the edits reported to it
    ruText,           \* the text after the edits
    ruCur,            \* the reuseCursor
    ruStack,          \* the glrStack that grafts are pushed on
    ruTs,             \* the token source of the reparse
    ruTok,            \* the lookahead token
    ruHist            \* history: the last call, what it was given and what it returned

arenaVars == <<refs, used, pool, held, relpc, arenaHist>>

vmVars == <<vmProgram, vmBuilt, vmPay, vmBuf, vmRun, vmLexer, vmHist>>

mergeVars == <<stacks, mergeScratch, mergePc, mergeHist>>

incrVars == <<incrPc, incrCfg, incrTree, incrText, incrResult, incrHist>>

slabVars == <<childSlabs, fieldSlabs, childSlabCursor, fieldSlabCursor, slabHist>>

lexVars == <<lexTs, lexTok, lexHist>>

csVars == <<csPc, csEntries, csSets, csState, csHist>>

esVars == <<esSlabs, esStacks, esHist>>

ruVars == <<ruPc, ruTree, ruText, ruCur, ruStack, ruTs, ruTok, ruHist>>

vars == <<arenaVars, vmVars, mergeVars, incrVars, slabVars, lexVars, csVars, esVars, ruVars>>

\* what the actions of one subsystem leave alone
arenaOthers == <<vmVars, mergeVars, incrVars, slabVars, lexVars, csVars, esVars, ruVars>>

vmOthers == <<arenaVars, mergeVars, incrVars, slabVars, lexVars, csVars, esVars, ruVars>>

mergeOthers == <<arenaVars, vmVars, incrVars, slabVars, lexVars, csVars, esVars, ruVars>>

incrOthers == <<arenaVars, vmVars, mergeVars, slabVars, lexVars, csVars, esVars, ruVars>>

slabOthers == <<arenaVars, vmVars, mergeVars, incrVars, lexVars, csVars, esVars, ruVars>>

lexOthers == <<arenaVars, vmVars, mergeVars, incrVars, slabVars, csVars, esVars, ruVars>>

csOthers == <<arenaVars, vmVars, mergeVars, incrVars, slabVars, lexVars, esVars, ruVars>>

esOthers == <<arenaVars, vmVars, mergeVars, incrVars, slabVars, lexVars, csVars, ruVars>>

ruOthers == <<arenaVars, vmVars, mergeVars, incrVars, slabVars, lexVars, csVars, esVars>>

(***************************************************************************)
(* Small helpers.                                                          *)
(***************************************************************************)
Max(a, b) == IF a >= b THEN a ELSE b

Min(a, b) == IF a <= b THEN a ELSE b

RECURSIVE SumOver(_, _)
SumOver(f, S) ==
    IF S = {} THEN 0
    ELSE LET x == CHOOSE y \in S : TRUE IN f[x] + SumOver(f, S \ {x})

(***************************************************************************)
(* Node arena: acquire / Retain / Release / reset.                         *)
(***************************************************************************)
NumHolders == 3

MaxRefs == 3

MaxCycles == 2

MaxNodes == 2

Holders == 1..NumHolders

\* refs.Store(1) in acquireNodeArena
AcquireRefs == 1

RetainRefsNoAdd(r) == r

\* a.refs.Add(1)
RetainRefs(r) == r + 1

\* a.refs.Add(-1): the value Add returns
ReleaseRefs(r) == r - 1

ReleaseIsLastOffByOne(r) == r <= 1

\* Release goes on to reset and Put exactly when Add(-1) returned 0
ReleaseIsLast(r) == r = 0

TotalHeld == SumOver(held, Holders)

ArenaInit ==
    /\ refs = 0
    /\ used = 0
    /\ pool = 0
    /\ held = [h \in Holders |-> 0]
    /\ relpc = [h \in Holders |-> "idle"]
    /\ arenaHist = [acquires |-> 0, resets |-> 0, puts |-> 0, zeroBy |-> 0,
                    op |-> "none", before |-> 0, maxRefs |-> 0, by |-> 0]

\* acquireNodeArena: Pool.Get hands out a pooled arena (or New builds the
\* first one), then refs.Store(1).
Acquire(h) ==
    /\ relpc[h] = "idle"
    /\ arenaHist.acquires < MaxCycles
    /\ \/ pool > 0
       \/ arenaHist.acquires = 0
    /\ pool' = IF pool > 0 THEN pool - 1 ELSE 0
    /\ refs' = AcquireRefs
    /\ held' = [held EXCEPT ![h] = @ + 1]
    /\ arenaHist' = [arenaHist EXCEPT !.acquires = @ + 1, !.op = "acquire",
                                      !.before = refs, !.by = h,
                                      !.maxRefs = Max(@, AcquireRefs)]
    /\ UNCHANGED <<used, relpc, arenaOthers>>

\* allocNode by a holder of a reference (bump pointer; the slab fallback
\* leaves used alone).
AllocNode(h) ==
    /\ relpc[h] = "idle"
    /\ held[h] > 0
    /\ used < MaxNodes
    /\ used' = used + 1
    /\ arenaHist' = [arenaHist EXCEPT !.op = "alloc", !.before = refs, !.by = h]
    /\ UNCHANGED <<refs, pool, held, relpc, arenaOthers>>

\* Retain: a holder that owns a reference takes another one, for itself
\* or for the tree of another holder g.
Retain(h, g) ==
    /\ relpc[h] = "idle"
    /\ held[h] > 0
    /\ refs < MaxRefs
    /\ refs' = RetainRefs(refs)
    /\ held' = [held EXCEPT ![g] = @ + 1]
    /\ arenaHist' = [arenaHist EXCEPT !.op = "retain", !.before = refs, !.by = h,
                                      !.maxRefs = Max(@, RetainRefs(refs))]
    /\ UNCHANGED <<used, pool, relpc, arenaOthers>>

\* Release, first step: the atomic refs.Add(-1) and the test of its result.
ReleaseDec(h) ==
    /\ relpc[h] = "idle"
    /\ held[h] > 0
    /\ refs' = ReleaseRefs(refs)
    /\ held' = [held EXCEPT ![h] = @ - 1]
    /\ relpc' = [relpc EXCEPT ![h] = IF ReleaseIsLast(ReleaseRefs(refs))
                                     THEN "reset" ELSE "idle"]
    /\ arenaHist' = [arenaHist EXCEPT !.op = "release", !.before = refs, !.by = h,
                                      !.zeroBy = IF ReleaseIsLast(ReleaseRefs(refs))
                                                 THEN h ELSE @]
    /\ UNCHANGED <<used, pool, arenaOthers>>

\* Release, second step: a.reset()
ReleaseReset(h) ==
    /\ relpc[h] = "reset"
    /\ used' = 0
    /\ relpc' = [relpc EXCEPT ![h] = "put"]
    /\ arenaHist' = [arenaHist EXCEPT !.resets = @ + 1, !.op = "reset", !.by = h]
    /\ UNCHANGED <<refs, pool, held, arenaOthers>>

\* Release, third step: Pool.Put(a)
ReleasePut(h) ==
    /\ relpc[h] = "put"
    /\ pool' = pool + 1
    /\ relpc' = [relpc EXCEPT ![h] = "idle"]
    /\ arenaHist' = [arenaHist EXCEPT !.puts = @ + 1, !.op = "put", !.by = h]
    /\ UNCHANGED <<refs, used, held, arenaOthers>>

ArenaNext ==
    \/ \E h \in Holders : Acquire(h)
    \/ \E h \in Holders : AllocNode(h)
    \/ \E h \in Holders, g \in Holders : Retain(h, g)
    \/ \E h \in Holders : ReleaseDec(h)
    \/ \E h \in Holders : ReleaseReset(h)
    \/ \E h \in Holders : ReleasePut(h)

(***************************************************************************)
(* External scanner VM: programs, validation, Scan, payload serialization. *)
(***************************************************************************)
MaxCodeLen == 2

MaxInputLen == 1

MaxValidLen == 1

MaxBufLen == 5

ExternalVMOpFail == 0

ExternalVMOpJump == 1

ExternalVMOpRequireValid == 2

ExternalVMOpRequireStateEq == 3

ExternalVMOpSetState == 4

ExternalVMOpIfRuneEq == 5

ExternalVMOpIfRuneInRange == 6

ExternalVMOpIfRuneClass == 7

ExternalVMOpAdvance == 8

ExternalVMOpMarkEnd == 9

ExternalVMOpEmit == 10

\* an opcode value outside the enumeration
UnknownOp == ExternalVMOpEmit + 1

ExternalVMRuneClassWhitespace == 0

ExternalVMRuneClassDigit == 1

ExternalVMRuneClassLetter == 2

ExternalVMRuneClassWord == 3

ExternalVMRuneClassNewline == 4

\* code points used by the scanners of external_vm_test.go
RuneHash == 35

RuneOpen == 91

RuneClose == 93

RuneUnderscore == 95

RuneNewline == 10

Instr(op, a, b, alt) == [Op |-> op, A |-> a, B |-> b, Alt |-> alt]

VMFail == Instr(ExternalVMOpFail, 0, 0, 0)

VMJump(target) == Instr(ExternalVMOpJump, target, 0, 0)

VMRequireValid(validSymbolIndex, alt) == Instr(ExternalVMOpRequireValid, validSymbolIndex, 0, alt)

VMRequireStateEq(state, alt) == Instr(ExternalVMOpRequireStateEq, state, 0, alt)

VMSetState(state) == Instr(ExternalVMOpSetState, state, 0, 0)

VMIfRuneEq(r, alt) == Instr(ExternalVMOpIfRuneEq, r, 0, alt)

VMIfRuneInRange(start, end, alt) == Instr(ExternalVMOpIfRuneInRange, start, end, alt)

VMIfRuneClass(class, alt) == Instr(ExternalVMOpIfRuneClass, class, 0, alt)

VMAdvance(skip) == Instr(ExternalVMOpAdvance, IF skip THEN 1 ELSE 0, 0, 0)

VMMarkEnd == Instr(ExternalVMOpMarkEnd, 0, 0, 0)

VMEmit(sym) == Instr(ExternalVMOpEmit, sym, 0, 0)

\* Symbol(ins.A): conversion of the int32 operand to the unsigned symbol type
Symbol(a) == a % 65536

\* A uint32 value, held as its two 16-bit halves (the value is
\* hi * 65536 + lo): the model checker's integers are narrower than 2^32.
\* uint32(ins.A) of an int32 operand, two's complement for a negative one.
Uint32(a) == [hi |-> (a \div 65536) % 65536, lo |-> a % 65536]

\* a target check that accepts the index one past the last instruction
validateExternalVMTargetUpTo(target, codeLen) == ~(target < 0 \/ target > codeLen)

\* validateExternalVMTarget: TRUE when the target is accepted
validateExternalVMTarget(target, codeLen) == ~(target < 0 \/ target >= codeLen)

\* the per-instruction switch of validateExternalVMProgram: TRUE when accepted
validateInstr(ins, codeLen) ==
    CASE ins.Op \in {ExternalVMOpFail, ExternalVMOpMarkEnd, ExternalVMOpAdvance,
                     ExternalVMOpEmit} -> TRUE
      [] ins.Op = ExternalVMOpJump -> validateExternalVMTarget(ins.A, codeLen)
      [] ins.Op = ExternalVMOpRequireValid ->
            ~(ins.A < 0) /\ validateExternalVMTarget(ins.Alt, codeLen)
      [] ins.Op = ExternalVMOpRequireStateEq ->
            ~(ins.A < 0) /\ validateExternalVMTarget(ins.Alt, codeLen)
      [] ins.Op = ExternalVMOpSetState -> ~(ins.A < 0)
      [] ins.Op = ExternalVMOpIfRuneEq -> validateExternalVMTarget(ins.Alt, codeLen)
      [] ins.Op = ExternalVMOpIfRuneInRange ->
            ~(ins.B < ins.A) /\ validateExternalVMTarget(ins.Alt, codeLen)
      [] ins.Op = ExternalVMOpIfRuneClass ->
            ~(ins.A < 0 \/ ins.A > ExternalVMRuneClassNewline)
            /\ validateExternalVMTarget(ins.Alt, codeLen)
      [] OTHER -> FALSE

\* validateExternalVMProgram: TRUE when it returns nil
validateExternalVMProgram(program) ==
    /\ Len(program.Code) # 0
    /\ ~(program.MaxSteps < 0)
    /\ \A i \in 1..Len(program.Code) : validateInstr(program.Code[i], Len(program.Code))

defaultExternalVMMaxStepsWrongFactor(codeLen) ==
    LET steps == codeLen * 32 IN IF steps < 64 THEN 64 ELSE steps

defaultExternalVMMaxSteps(codeLen) ==
    LET steps == codeLen * 16 IN IF steps < 64 THEN 64 ELSE steps

\* maxSteps as Scan selects it
ScanMaxSteps(program) ==
    IF program.MaxSteps <= 0 THEN defaultExternalVMMaxSteps(Len(program.Code))
    ELSE program.MaxSteps

BudgetLeftOffByOne(steps, maxSteps) == steps <= maxSteps

\* the loop condition of Scan: steps < maxSteps
BudgetLeft(steps, maxSteps) == steps < maxSteps

\* unicode.IsSpace / IsDigit / IsLetter on the code points of the model
IsSpaceRune(r) == r \in {9, 10, 11, 12, 13, 32, 133, 160}

IsDigitRune(r) == r >= 48 /\ r <= 57

IsLetterRune(r) == (r >= 65 /\ r <= 90) \/ (r >= 97 /\ r <= 122)

matchesExternalVMRuneClass(r, class) ==
    CASE class = ExternalVMRuneClassWhitespace -> IsSpaceRune(r)
      [] class = ExternalVMRuneClassDigit -> IsDigitRune(r)
      [] class = ExternalVMRuneClassLetter -> IsLetterRune(r)
      [] class = ExternalVMRuneClassWord ->
            r = RuneUnderscore \/ IsLetterRune(r) \/ IsDigitRune(r)
      [] class = ExternalVMRuneClassNewline -> r = RuneNewline
      [] OTHER -> FALSE

\* ExternalLexer: the lexer a scan runs against
newExternalLexer(input) ==
    [input |-> input, pos |-> 0, tokenEnd |-> 0, hasResult |-> FALSE, symbol |-> 0]

LexLookahead(lex) == IF lex.pos < Len(lex.input) THEN lex.input[lex.pos + 1] ELSE 0

LexAdvance(lex) == IF lex.pos < Len(lex.input) THEN [lex EXCEPT !.pos = @ + 1] ELSE lex

LexMarkEnd(lex) == [lex EXCEPT !.tokenEnd = lex.pos]

LexSetResultSymbol(lex, sym) == [lex EXCEPT !.hasResult = TRUE, !.symbol = sym]

\* lexer.token(): a token exists only when a result symbol was set
LexHasToken(lex) == lex.hasResult

RequireValidEvalNoBoundCheck(validSymbols, idx) ==
    [reads |-> {idx},
     pass |-> idx >= 0 /\ idx < Len(validSymbols) /\ validSymbols[idx + 1]]

\* the condition of ExternalVMOpRequireValid, idx < len(validSymbols) &&
\* validSymbols[idx]: the indices it reads and its value
RequireValidEval(validSymbols, idx) ==
    IF idx < Len(validSymbols)
    THEN [reads |-> {idx}, pass |-> validSymbols[idx + 1]]
    ELSE [reads |-> {}, pass |-> FALSE]

\* the condition of ExternalVMOpRequireStateEq: state == uint32(ins.A)
RequireStateEqPass(state, a) == state = Uint32(a)

\* the switch of Scan on one instruction: the next pc, the state word, the
\* lexer and how the scan goes on ("run") or returns
ExecInstr(ins, validSymbols, pc, state, lex) ==
    LET go(npc, nstate, nlex) == [pc |-> npc, state |-> nstate, lex |-> nlex, how |-> "run"]
        ret(h, nlex) == [pc |-> pc, state |-> state, lex |-> nlex, how |-> h]
    IN CASE ins.Op = ExternalVMOpFail -> ret("fail", lex)
         [] ins.Op = ExternalVMOpJump -> go(ins.A, state, lex)
         [] ins.Op = ExternalVMOpRequireValid ->
               LET e == RequireValidEval(validSymbols, ins.A) IN
               IF \E r \in e.reads : r < 0 \/ r >= Len(validSymbols)
               THEN ret("panic", lex)
               ELSE IF e.pass THEN go(pc + 1, state, lex) ELSE go(ins.Alt, state, lex)
         [] ins.Op = ExternalVMOpRequireStateEq ->
               IF RequireStateEqPass(state, ins.A) THEN go(pc + 1, state, lex)
               ELSE go(ins.Alt, state, lex)
         [] ins.Op = ExternalVMOpSetState -> go(pc + 1, Uint32(ins.A), lex)
         [] ins.Op = ExternalVMOpIfRuneEq ->
               IF LexLookahead(lex) = ins.A THEN go(pc + 1, state, lex)
               ELSE go(ins.Alt, state, lex)
         [] ins.Op = ExternalVMOpIfRuneInRange ->
               IF LexLookahead(lex) >= ins.A /\ LexLookahead(lex) <= ins.B
               THEN go(pc + 1, state, lex) ELSE go(ins.Alt, state, lex)
         [] ins.Op = ExternalVMOpIfRuneClass ->
               IF matchesExternalVMRuneClass(LexLookahead(lex), ins.A)
               THEN go(pc + 1, state, lex) ELSE go(ins.Alt, state, lex)
         [] ins.Op = ExternalVMOpAdvance -> go(pc + 1, state, LexAdvance(lex))
         [] ins.Op = ExternalVMOpMarkEnd -> go(pc + 1, state, LexMarkEnd(lex))
         [] ins.Op = ExternalVMOpEmit -> ret("emit", LexSetResultSymbol(lex, Symbol(ins.A)))
         [] OTHER -> ret("default", lex)

NoInstr == [pc |-> -1, op |-> -1, a |-> 0, alt |-> 0, stateBefore |-> Uint32(0)]

IdleRun ==
    [phase |-> "idle", pay |-> 0, pc |-> 0, steps |-> 0, maxSteps |-> 0, state |-> Uint32(0),
     valid |-> <<>>, result |-> FALSE, how |-> "none", executed |-> 0, fetchOK |-> TRUE,
     last |-> NoInstr, prior |-> Uint32(0), lastSet |-> 0 - 1]

\* Scan up to the loop: the state word read from the payload, maxSteps, pc := 0
ScanEnter(program, p, state, validSymbols) ==
    [IdleRun EXCEPT !.phase = "running", !.pay = p, !.state = state, !.prior = state,
                    !.maxSteps = ScanMaxSteps(program), !.valid = validSymbols]

\* one iteration of the loop of Scan (or the return after it): the run and
\* the lexer afterwards
ScanIter(program, run, lex) ==
    LET code == program.Code IN
    IF ~BudgetLeft(run.steps, run.maxSteps)
    THEN [run |-> [run EXCEPT !.phase = "done", !.result = FALSE, !.how = "exhausted"],
          lex |-> lex]
    ELSE IF run.pc < 0 \/ run.pc >= Len(code)
    THEN [run |-> [run EXCEPT !.phase = "done", !.result = FALSE, !.how = "ranoff"],
          lex |-> lex]
    ELSE LET ins == code[run.pc + 1]
             r == ExecInstr(ins, run.valid, run.pc, run.state, lex)
             seen == [pc |-> run.pc, op |-> ins.Op, a |-> ins.A, alt |-> ins.Alt,
                      stateBefore |-> run.state]
         IN [run |-> [run EXCEPT !.phase = IF r.how = "run" THEN "running" ELSE "done",
                                 !.pc = r.pc,
                                 !.state = r.state,
                                 !.steps = IF r.how = "run" THEN @ + 1 ELSE @,
                                 !.executed = @ + 1,
                                 !.result = (r.how = "emit"),
                                 !.how = IF r.how = "run" THEN "none" ELSE r.how,
                                 !.last = seen,
                                 !.lastSet = IF ins.Op = ExternalVMOpSetState THEN ins.A ELSE @],
             lex |-> r.lex]

\* Scan as a whole: the loop run to its return
RECURSIVE ScanLoop(_, _)
ScanLoop(program, st) ==
    IF st.run.phase = "done" THEN st
    ELSE ScanLoop(program, ScanIter(program, st.run, st.lex))

ScanRun(program, run, lex) == ScanLoop(program, [run |-> run, lex |-> lex])

\* Create: a payload with State 0
CreatePayload == Uint32(0)

\* byte k (0 = least significant) of a uint32
ByteOf(state, k) ==
    CASE k = 0 -> state.lo % 256
      [] k = 1 -> state.lo \div 256
      [] k = 2 -> state.hi % 256
      [] k = 3 -> state.hi \div 256

SerializeBigEndian(state, buf) ==
    IF Len(buf) < 4 THEN [n |-> 0, buf |-> buf]
    ELSE [n |-> 4,
          buf |-> [i \in 1..Len(buf) |-> IF i <= 4 THEN ByteOf(state, 4 - i) ELSE buf[i]]]

\* Serialize: binary.LittleEndian.PutUint32(buf[:4], state); the bytes
\* written and the count returned
Serialize(state, buf) ==
    IF Len(buf) < 4 THEN [n |-> 0, buf |-> buf]
    ELSE [n |-> 4,
          buf |-> [i \in 1..Len(buf) |-> IF i <= 4 THEN ByteOf(state, i - 1) ELSE buf[i]]]

\* Deserialize: the payload state afterwards
Deserialize(buf) ==
    IF Len(buf) < 4 THEN Uint32(0)
    ELSE [hi |-> buf[3] + buf[4] * 256, lo |-> buf[1] + buf[2] * 256]

\* ---- the inputs of the model ----
RECURSIVE SeqsUpTo(_, _)
SeqsUpTo(S, n) ==
    IF n = 0 THEN {<<>>}
    ELSE LET shorter == SeqsUpTo(S, n - 1)
         IN shorter \cup {Append(q, x) : q \in {t \in shorter : Len(t) = n - 1}, x \in S}

\* instructions that validation can accept in a short program
GoodInstrs ==
    { VMFail, VMJump(0), VMRequireValid(1, 1), VMSetState(1), VMIfRuneEq(RuneHash, 1),
      VMEmit(2) }

\* instructions with one defect each
BadInstrs ==
    { VMJump(-1), VMJump(MaxCodeLen), VMRequireValid(-1, 0), VMRequireValid(0, MaxCodeLen),
      VMRequireStateEq(-1, 0), VMSetState(-1), VMIfRuneEq(RuneHash, -1),
      VMIfRuneInRange(RuneClose, RuneOpen, 0), VMIfRuneClass(ExternalVMRuneClassNewline + 1, 0),
      VMEmit(-1), Instr(UnknownOp, 0, 0, 0) }

\* the programs of external_vm_test.go
SimpleTokenCode ==
    << VMRequireValid(0, 5), VMIfRuneEq(RuneHash, 5), VMAdvance(FALSE), VMMarkEnd,
       VMEmit(2), VMFail >>

RoundTripCode ==
    << VMIfRuneEq(RuneOpen, 5), VMAdvance(FALSE), VMMarkEnd, VMSetState(1), VMEmit(10),
       VMRequireStateEq(1, 10), VMIfRuneEq(RuneClose, 10), VMAdvance(FALSE), VMMarkEnd,
       VMEmit(11), VMFail >>

LoopGuardCode == << VMJump(0) >>

\* further programs: a loop long enough for the default budget to exceed 64,
\* a program that runs off its end, the rune tests
LongLoopCode == << VMMarkEnd, VMAdvance(TRUE), VMMarkEnd, VMMarkEnd, VMJump(0) >>

RunOffCode == << VMIfRuneInRange(RuneOpen, RuneClose, 1), VMIfRuneClass(ExternalVMRuneClassWord, 1) >>

FixedCodes == { SimpleTokenCode, RoundTripCode, LoopGuardCode, LongLoopCode, RunOffCode }

MaxStepsChoices == {0, 8, 65}

ShortCodes == SeqsUpTo(GoodInstrs, MaxCodeLen) \cup
              { <<b>> : b \in BadInstrs } \cup
              { <<VMSetState(1), b>> : b \in BadInstrs } \cup
              { <<b, VMFail>> : b \in BadInstrs }

Programs ==
    { [Code |-> c, MaxSteps |-> m] : c \in ShortCodes \cup FixedCodes, m \in MaxStepsChoices }
    \cup { [Code |-> <<VMFail>>, MaxSteps |-> -1] }

Inputs == SeqsUpTo({RuneHash}, MaxInputLen) \cup {<<RuneUnderscore>>, <<RuneOpen>>, <<RuneClose>>}

ValidLists == SeqsUpTo({TRUE}, MaxValidLen) \cup {<<FALSE>>}

ByteSeqs == SeqsUpTo({0, 255}, MaxBufLen)

Payloads == {1, 2}

NoScan == [origin |-> "none", input |-> <<>>, valid |-> <<>>, result |-> FALSE,
           hasToken |-> FALSE, symbol |-> 0]

NoVMHist ==
    [serN |-> -1, serState |-> Uint32(0), serLen |-> 0, serFrom |-> 0, intact |-> FALSE,
     restored |-> {}, fresh |-> {}, scan |-> [p \in Payloads |-> NoScan]]

VMIdle ==
    /\ vmProgram = [Code |-> <<>>, MaxSteps |-> 0]
    /\ vmBuilt = "unbuilt"
    /\ vmPay = [p \in Payloads |-> Uint32(0)]
    /\ vmBuf = <<>>
    /\ vmRun = IdleRun
    /\ vmLexer = newExternalLexer(<<>>)
    /\ vmHist = NoVMHist

VMInit ==
    /\ vmProgram \in Programs
    /\ vmBuilt = "unbuilt"
    /\ vmPay = [p \in Payloads |-> CreatePayload]
    /\ vmBuf = <<>>
    /\ vmRun = IdleRun
    /\ vmLexer = newExternalLexer(<<>>)
    /\ vmHist = [NoVMHist EXCEPT !.fresh = Payloads]

\* NewExternalVMScanner: a scanner, or an error and no scanner
VMNewScanner ==
    /\ vmBuilt = "unbuilt"
    /\ vmBuilt' = IF validateExternalVMProgram(vmProgram) THEN "ok" ELSE "error"
    /\ UNCHANGED <<vmProgram, vmPay, vmBuf, vmRun, vmLexer, vmHist, vmOthers>>

\* Scan, entry: a lexer over the input, the state word of the payload
VMScanBegin(p, input, validSymbols) ==
    /\ vmBuilt = "ok"
    /\ vmRun.phase # "running"
    /\ vmRun' = ScanEnter(vmProgram, p, vmPay[p], validSymbols)
    /\ vmLexer' = newExternalLexer(input)
    /\ UNCHANGED <<vmProgram, vmBuilt, vmPay, vmBuf, vmHist, vmOthers>>

\* the write-back only when the scan emitted
WriteBackOnEmit(pay, run) ==
    IF run.phase = "done" /\ run.result THEN [pay EXCEPT ![run.pay] = run.state] ELSE pay

\* the deferred p.State = state of Scan, run when Scan returns
WriteBack(pay, run) == IF run.phase = "done" THEN [pay EXCEPT ![run.pay] = run.state] ELSE pay

\* Scan, one loop iteration; on return the deferred p.State = state runs
VMScanStep ==
    /\ vmRun.phase = "running"
    /\ LET n == ScanIter(vmProgram, vmRun, vmLexer) IN
         /\ vmRun' = n.run
         /\ vmLexer' = n.lex
         /\ vmPay' = WriteBack(vmPay, n.run)
         /\ vmHist' = IF n.run.phase = "done"
                      THEN [vmHist EXCEPT !.fresh = @ \ {vmRun.pay}] ELSE vmHist
    /\ UNCHANGED <<vmProgram, vmBuilt, vmBuf, vmOthers>>

VMNext ==
    \/ VMNewScanner
    \/ \E p \in {1}, input \in Inputs, v \in ValidLists : VMScanBegin(p, input, v)
    \/ VMScanStep

\* ---- payload life cycle: Create, Serialize, Deserialize, Scan as a whole ----
StateCodes ==
    { RoundTripCode, SimpleTokenCode, <<VMRequireStateEq(1, 1), VMEmit(2)>>,
      <<VMSetState(1), VMJump(0)>> }

StatePrograms == { [Code |-> c, MaxSteps |-> IF c = <<VMSetState(1), VMJump(0)>> THEN 8 ELSE 0] :
                     c \in StateCodes }

VMStateInit ==
    /\ vmProgram \in StatePrograms
    /\ vmBuilt = "unbuilt"
    /\ vmPay = [p \in Payloads |-> CreatePayload]
    /\ vmBuf = <<>>
    /\ vmRun = IdleRun
    /\ vmLexer = newExternalLexer(<<>>)
    /\ vmHist = [NoVMHist EXCEPT !.fresh = Payloads]

\* Create: the payload replaced by a fresh one (before the checkpoint)
VMCreate(p) ==
    /\ vmBuilt = "ok"
    /\ vmHist.serN < 0
    /\ p \notin vmHist.fresh
    /\ vmPay' = [vmPay EXCEPT ![p] = CreatePayload]
    /\ vmHist' = [vmHist EXCEPT !.fresh = @ \cup {p}, !.restored = @ \ {p},
                                !.scan = [@ EXCEPT ![p] = NoScan],
                                !.intact = IF p = vmHist.serFrom THEN FALSE ELSE @]
    /\ UNCHANGED <<vmProgram, vmBuilt, vmBuf, vmRun, vmLexer, vmOthers>>

\* Deserialize of bytes that come from outside (an earlier checkpoint)
VMDeserializeExt(p, b) ==
    /\ vmBuilt = "ok"
    /\ vmHist.serN < 0
    /\ vmPay' = [vmPay EXCEPT ![p] = Deserialize(b)]
    /\ vmHist' = [vmHist EXCEPT !.fresh = @ \ {p}]
    /\ UNCHANGED <<vmProgram, vmBuilt, vmBuf, vmRun, vmLexer, vmOthers>>

\* Serialize of payload p into a zeroed buffer of n bytes
VMSerialize(p, n) ==
    /\ vmBuilt = "ok"
    /\ vmHist.serN < 0
    /\ LET r == Serialize(vmPay[p], [i \in 1..n |-> 0]) IN
         /\ vmBuf' = r.buf
         /\ vmHist' = [vmHist EXCEPT !.serN = r.n, !.serState = vmPay[p], !.serLen = n,
                                     !.serFrom = p, !.intact = TRUE]
    /\ UNCHANGED <<vmProgram, vmBuilt, vmPay, vmRun, vmLexer, vmOthers>>

\* Deserialize(payload, buf[:n]) of what Serialize wrote, into a payload that
\* is still fresh
VMDeserializeBuf(p) ==
    /\ vmBuilt = "ok"
    /\ vmHist.serN >= 0
    /\ p # vmHist.serFrom
    /\ p \in vmHist.fresh
    /\ vmPay' = [vmPay EXCEPT ![p] = Deserialize(SubSeq(vmBuf, 1, vmHist.serN))]
    /\ vmHist' = [vmHist EXCEPT !.fresh = @ \ {p}, !.restored = @ \cup {p}]
    /\ UNCHANGED <<vmProgram, vmBuilt, vmBuf, vmRun, vmLexer, vmOthers>>

\* Scan from entry to return, the deferred write-back included. Before the
\* checkpoint only payload 1 is scanned; after it both payloads scan the same
\* input, so that their results can be compared. The
\* activation and the caller's lexer end with the call: what the caller reads
\* from them (the result, lexer.token()) is kept in vmHist.scan.
VMScanAtomic(p, input, validSymbols) ==
    /\ vmBuilt = "ok"
    /\ vmHist.scan[p].origin = "none"
    /\ (vmHist.serN < 0) => p = 1
    /\ \A q \in Payloads :
          (vmHist.scan[q].origin # "none") =>
              (input = vmHist.scan[q].input /\ validSymbols = vmHist.scan[q].valid)
    /\ LET r == ScanRun(vmProgram, ScanEnter(vmProgram, p, vmPay[p], validSymbols),
                        newExternalLexer(input))
           origin == IF p \in vmHist.fresh THEN "fresh"
                     ELSE IF p \in vmHist.restored THEN "restored"
                     ELSE IF p = vmHist.serFrom /\ vmHist.intact THEN "serialized"
                     ELSE "other"
       IN /\ vmPay' = WriteBack(vmPay, r.run)
          /\ vmHist' = [vmHist EXCEPT
                          !.fresh = @ \ {p}, !.restored = @ \ {p},
                          !.intact = IF p = vmHist.serFrom THEN FALSE ELSE @,
                          !.scan = [@ EXCEPT ![p] =
                                      IF vmHist.serN < 0 /\ origin = "other" THEN NoScan
                                      ELSE [origin |-> origin, input |-> input,
                                            valid |-> validSymbols, result |-> r.run.result,
                                            hasToken |-> LexHasToken(r.lex),
                                            symbol |-> r.lex.symbol]]]
    /\ UNCHANGED <<vmProgram, vmBuilt, vmBuf, vmRun, vmLexer, vmOthers>>

VMStateNext ==
    \/ VMNewScanner
    \/ VMCreate(1)
    \/ \E b \in ByteSeqs : VMDeserializeExt(1, b)
    \/ \E n \in 0..MaxBufLen : VMSerialize(1, n)
    \/ VMDeserializeBuf(2)
    \/ \E p \in Payloads, input \in Inputs, v \in ValidLists : VMScanAtomic(p, input, v)

(***************************************************************************)
(* GLR stack merging (glr.go).                                             *)
(***************************************************************************)
\* stacks in an enumerated input list
MaxStacks == 3

\* mergeStacksWithScratch: the longest list merged by linear search
LinearMergeMax == 64

TopStates == {1, 2}

Scores == {0, 1}

\* stackEntry
StackEntry(state, node) == [state |-> state, node |-> node]

\* a glrStack whose top entry holds `state` and the node `node`
StackOf(state, node, score, dead) ==
    [entries |-> <<StackEntry(0, 0), StackEntry(state, node)>>, score |-> score,
     dead |-> dead, accepted |-> FALSE]

\* glrStack.top
top(s) == s.entries[Len(s.entries)]

\* glrStack.push without an entry scratch
push(s, state, node) == [s EXCEPT !.entries = Append(@, StackEntry(state, node))]

\* the clone that starts from score 0
cloneWithoutScore(s) == [entries |-> s.entries, score |-> 0, dead |-> FALSE, accepted |-> FALSE]

\* glrStack.clone
clone(s) == [entries |-> s.entries, score |-> s.score, dead |-> FALSE, accepted |-> FALSE]

\* the dynamic precedences of the productions: integers of either sign
DynPrecs == {0 - 1, 0, 1}

\* a reduce of one child: the top entry gives way to its parent in the goto
\* state, the dynamic precedence of the production is added to the score
reduceOne(s, state, prec) ==
    [push([s EXCEPT !.entries = SubSeq(@, 1, Len(@) - 1)], state, top(s).node)
        EXCEPT !.score = @ + prec]

\* the fork a stack descends from, named by the node of its first entry
ForkOf(s) == s.entries[2].node

\* the merge that keeps the dead stacks
RemoveDeadKeepsAll(list) == list

\* removal that moves the last stack into the cell of a dead one
RECURSIVE SwapRemove(_, _, _)
SwapRemove(cells, i, n) ==
    IF i > n THEN SubSeq(cells, 1, n)
    ELSE IF cells[i].dead THEN SwapRemove([cells EXCEPT ![i] = cells[n]], i, n - 1)
    ELSE SwapRemove(cells, i + 1, n)

RemoveDeadBySwap(list) == SwapRemove(list, 1, Len(list))

\* alive := stacks[:0]; for i := range stacks { if !stacks[i].dead { alive =
\* append(alive, stacks[i]) } }: cells is the array that stacks and alive
\* share, i the stack read, k the length of alive
RECURSIVE CompactFrom(_, _, _)
CompactFrom(cells, i, k) ==
    IF i > Len(cells) THEN SubSeq(cells, 1, k)
    ELSE IF cells[i].dead THEN CompactFrom(cells, i + 1, k)
    ELSE CompactFrom([cells EXCEPT ![k + 1] = cells[i]], i + 1, k + 1)

\* the loop that removes dead stacks, compacting the list in place
RemoveDead(list) == CompactFrom(list, 1, 0)

ScoreBeatsOrTies(a, b) == a >= b

\* alive[i].score > result[j].score
ScoreBeats(a, b) == a > b

\* the inner loop of the linear path: the first index of result whose top
\* state is key, 0 when there is none
LinearFind(result, key) ==
    LET hits == {j \in 1..Len(result) : top(result[j]).state = key}
    IN IF hits = {} THEN 0 ELSE CHOOSE j \in hits : \A k \in hits : j <= k

\* the lookup that takes the index from 0 as an index from 1
HashedFindFromZero(best, key) == IF key \in DOMAIN best THEN best[key] ELSE 0

\* the lookup of the hashed path: scratch.best[key] (an index from 0) + 1
HashedFind(best, key) == IF key \in DOMAIN best THEN best[key] + 1 ELSE 0

\* ensureMergeResultCap: TRUE when a new result array is made
ensureMergeResultCap(scratch, n) == scratch.cap < n

\* one iteration of the merge loops over alive[i]; st.alive and st.result
\* share their cells when st.aliased
MergeOne(st, i) ==
    LET cur == st.alive[i]
        key == top(cur).state
        j == IF st.hashed THEN HashedFind(st.best, key) ELSE LinearFind(st.result, key)
        at == IF j # 0 THEN j ELSE Len(st.result) + 1
        write == j = 0 \/ ScoreBeats(cur.score, st.result[j].score)
    IN [st EXCEPT
           !.result = IF j = 0 THEN Append(@, cur)
                      ELSE IF write THEN [@ EXCEPT ![j] = cur] ELSE @,
           !.alive = IF write /\ st.aliased THEN [@ EXCEPT ![at] = cur] ELSE @,
           !.best = IF j = 0 /\ st.hashed
                    THEN [k \in DOMAIN @ \cup {key} |->
                            IF k = key THEN Len(st.result) ELSE @[k]]
                    ELSE @]

RECURSIVE MergeLoop(_, _)
MergeLoop(st, i) == IF i > Len(st.alive) THEN st ELSE MergeLoop(MergeOne(st, i), i + 1)

\* the empty map
NoBest == [k \in {} |-> 0]

\* the loop of one regime over a list of live stacks, in an array of its own
MergeBy(alive, hashed) ==
    MergeLoop([alive |-> alive, result |-> <<>>, best |-> NoBest, aliased |-> FALSE,
               hashed |-> hashed], 1).result

\* a glrMergeScratch that was never used
NewMergeScratch == [best |-> NoBest, cap |-> 0]

\* mergeStacksWithScratch(list, scratch), list.items being backed by the array
\* list.backing ("scratch": the array of scratch.result); gives the returned
\* slice and the scratch after the call
mergeStacksWithScratch(list, scratch) ==
    LET alive == RemoveDead(list.items)
        fresh == ensureMergeResultCap(scratch, Len(alive))
        hashed == Len(alive) > LinearMergeMax
        done == MergeLoop([alive |-> alive, result |-> <<>>,
                           best |-> IF hashed THEN NoBest ELSE scratch.best,
                           aliased |-> ~fresh /\ list.backing = "scratch",
                           hashed |-> hashed], 1)
    IN IF Len(alive) <= 1
       THEN [out |-> [items |-> alive, backing |-> list.backing], scratch |-> scratch,
             path |-> "short"]
       ELSE [out |-> [items |-> done.result, backing |-> "scratch"],
             scratch |-> [best |-> done.best,
                          cap |-> IF fresh THEN Len(alive) ELSE scratch.cap],
             path |-> IF hashed THEN "hashed" ELSE "linear"]

\* mergeStacks: a scratch of its own, so the result is in an array of its own
mergeStacks(list) ==
    LET r == mergeStacksWithScratch([list EXCEPT !.backing = "caller"], NewMergeScratch)
    IN [r EXCEPT !.out.backing = IF r.path = "short" THEN list.backing ELSE "caller"]

\* the input lists: every list of up to MaxStacks stacks, each with a node
\* of its own, and lists longer than LinearMergeMax made of a run of live
\* stacks before or after a short list
RECURSIVE StackLists(_)
StackLists(n) ==
    IF n = 0 THEN {<<>>}
    ELSE LET shorter == StackLists(n - 1)
         IN shorter \cup
            { Append(l, StackOf(t, n, sc, d)) :
                l \in {x \in shorter : Len(x) = n - 1}, t \in TopStates, sc \in Scores,
                d \in BOOLEAN }

LongRun == [i \in 1..LinearMergeMax |-> StackOf(1 + (i % 2), MaxStacks + i, 0, FALSE)]

LongLists ==
    LET tails == {l \in StackLists(Min(MaxStacks, 2)) : l # <<>>}
    IN {LongRun \o l : l \in tails} \cup {l \o LongRun : l \in tails}

\* more live stacks than the linear search takes, each with a top state of its own
DistinctRun == [i \in 1..(LinearMergeMax + 1) |-> StackOf(i, MaxStacks + i, 0, FALSE)]

NoMergeHist ==
    [input |-> <<>>, out |-> <<>>, path |-> "none", withScratch |-> FALSE,
     aliased |-> FALSE, round |-> 0, reduced |-> {}, expect |-> <<>>, step |-> "none"]

\* history at the start: a fork with a score has reduced before; the score
\* each fork is expected to have
StartHist(list) ==
    [NoMergeHist EXCEPT
        !.reduced = {ForkOf(list[i]) : i \in {k \in 1..Len(list) : list[k].score # 0}},
        !.expect = [f \in {ForkOf(list[i]) : i \in 1..Len(list)} |->
                      list[CHOOSE i \in 1..Len(list) : ForkOf(list[i]) = f].score]]

MergeIdle ==
    /\ stacks = [items |-> <<>>, backing |-> "caller"]
    /\ mergeScratch = NewMergeScratch
    /\ mergePc = "idle"
    /\ mergeHist = NoMergeHist

MergeInit ==
    /\ stacks \in {[items |-> l, backing |-> "caller"] : l \in StackLists(MaxStacks) \cup LongLists}
    /\ mergeScratch = NewMergeScratch
    /\ mergePc = "input"
    /\ mergeHist = StartHist(stacks.items)

\* the start of the runs that merge twice in one array: the short lists and
\* the run of distinct top states
MergeAliasInit ==
    /\ stacks \in {[items |-> l, backing |-> "caller"] : l \in StackLists(MaxStacks) \cup {DistinctRun}}
    /\ mergeScratch = NewMergeScratch
    /\ mergePc = "input"
    /\ mergeHist = StartHist(stacks.items)

MergeRecord(r, withScratch) ==
    [mergeHist EXCEPT
        !.input = stacks.items, !.out = r.out.items, !.path = r.path,
        !.withScratch = withScratch,
        !.aliased = withScratch /\ stacks.backing = "scratch" /\ r.path # "short",
        !.round = @ + 1]

\* stacks = mergeStacks(stacks)
MergeStacks ==
    /\ mergePc = "input"
    /\ LET r == mergeStacks(stacks)
       IN /\ stacks' = r.out
          /\ mergeHist' = MergeRecord(r, FALSE)
    /\ mergePc' = "merged"
    /\ UNCHANGED <<mergeScratch, mergeOthers>>

\* stacks = mergeStacksWithScratch(stacks, &scratch), the scratch kept between calls
MergeStacksWithScratch ==
    /\ mergePc = "input"
    /\ LET r == mergeStacksWithScratch(stacks, mergeScratch)
       IN /\ stacks' = r.out
          /\ mergeScratch' = r.scratch
          /\ mergeHist' = MergeRecord(r, TRUE)
    /\ mergePc' = "merged"
    /\ UNCHANGED mergeOthers

\* between two merges the parser works on the merged stacks: stack k shifts
\* (push), reduces by a production with a dynamic precedence, hits an error
\* (dead), or forks (clone)
ParseStepOn(k, what, state, prec) ==
    CASE what = "dead" -> [stacks EXCEPT !.items[k].dead = TRUE]
      [] what = "reduce" -> [stacks EXCEPT !.items[k] = reduceOne(@, state, prec)]
      [] what = "push" -> [stacks EXCEPT !.items[k] = push(@, state, k)]
      [] what = "clone" -> [stacks EXCEPT !.items = Append(@, clone(stacks.items[k]))]

ParseStep(k, what, state, prec) ==
    /\ mergePc = "merged"
    /\ mergeHist.round = 1
    /\ mergeHist.withScratch
    /\ k \in 1..Len(stacks.items)
    /\ what = "clone" => Len(stacks.items) < MaxStacks
    /\ stacks' = ParseStepOn(k, what, state, prec)
    /\ mergeHist' =
          IF what = "reduce"
          THEN [mergeHist EXCEPT !.reduced = @ \cup {ForkOf(stacks.items[k])},
                                 !.expect[ForkOf(stacks.items[k])] = @ + prec,
                                 !.step = what]
          ELSE [mergeHist EXCEPT !.step = what]
    /\ mergePc' = "input"
    /\ UNCHANGED <<mergeScratch, mergeOthers>>

MergeNext ==
    \/ MergeStacks
    \/ MergeStacksWithScratch
    \/ \E k \in 1..MaxStacks, what \in {"dead", "reduce", "push", "clone"}, state \in TopStates,
          prec \in DynPrecs :
          ParseStep(k, what, state, prec)

(***************************************************************************)
(* Incremental reuse engine (incremental.go).  The reuse cursor and the    *)
(* subtree grafting are translated from incremental.go.  The token source, *)
(* the parse table of a sample language, Tree.Edit and the parser driver   *)
(* are not part of the sources at hand; they follow the specification      *)
(* (sections 3, 4.2 to 4.5).                                               *)
(***************************************************************************)
\* bytes in a source text
MaxSourceLen == 4

\* bytes an edit inserts
MaxInsertLen == 1

\* the sample language: a program is a list of statements `ident ;`, an
\* ident is a run of the byte "a"
Sym == [end |-> 0, ident |-> 1, semi |-> 2, stmt |-> 3, program |-> 4, error |-> 5]

NamedSymbols == {Sym.ident, Sym.stmt, Sym.program}

Bytes == {"a", ";"}

IsValidSource(src) ==
    /\ Len(src) > 0
    /\ src[1] = "a"
    /\ src[Len(src)] = ";"
    /\ \A i \in 1..(Len(src) - 1) : ~(src[i] = ";" /\ src[i + 1] = ";")

Sources == {s \in SeqsUpTo(Bytes, MaxSourceLen) : IsValidSource(s)}

\* ---- token source (specification 4.2) ----
Token(symbol, startByte, endByte) ==
    [Symbol |-> symbol, StartByte |-> startByte, EndByte |-> endByte]

RECURSIVE RunEnd(_, _)
RunEnd(src, pos) == IF pos < Len(src) /\ src[pos + 1] = "a" THEN RunEnd(src, pos + 1) ELSE pos

\* the longest token that starts at byte pos
LexAt(src, pos) ==
    IF pos >= Len(src) THEN Token(Sym.end, Len(src), Len(src))
    ELSE IF src[pos + 1] = "a" THEN Token(Sym.ident, pos, RunEnd(src, pos))
    ELSE Token(Sym.semi, pos, pos + 1)

NewTokenSource(src, skippable) == [src |-> src, pos |-> 0, skippable |-> skippable, lexed |-> 0]

TSNext(ts) ==
    LET t == LexAt(ts.src, ts.pos)
    IN [tok |-> t, ts |-> [ts EXCEPT !.pos = t.EndByte, !.lexed = @ + 1]]

TSSkipToByte(ts, offset) ==
    LET t == LexAt(ts.src, offset)
    IN [tok |-> t, ts |-> [ts EXCEPT !.pos = t.EndByte, !.lexed = @ + 1]]

\* ---- parse table of the sample language (specification 3) ----
\*   program -> stmt | stmt program        stmt -> ident semi
\* state 1: start, 2: program accepted, 3: after ident, 4: after stmt,
\* 5: after ident semi, 6: after stmt program; goto 0 means none.
\* States 8 and 9 are rows of a table in which ident and semi are also extra
\* tokens: the parse of the sample language never enters them.
StartState == 1

ParseActionShift == "shift"

ParseActionReduce == "reduce"

ParseActionAccept == "accept"

Action(type, state, production) ==
    [Type |-> type, State |-> state, Extra |-> FALSE, Production |-> production]

\* the shift of an extra token: it names no target state
ShiftExtra == [Action(ParseActionShift, 0, 0) EXCEPT !.Extra = TRUE]

Productions ==
    << [symbol |-> Sym.program, childCount |-> 1],
       [symbol |-> Sym.program, childCount |-> 2],
       [symbol |-> Sym.stmt, childCount |-> 2] >>

lookupAction(state, symbol) ==
    CASE state = 1 /\ symbol = Sym.ident -> <<Action(ParseActionShift, 3, 0)>>
      [] state = 2 /\ symbol = Sym.end -> <<Action(ParseActionAccept, 0, 0)>>
      [] state = 3 /\ symbol = Sym.semi -> <<Action(ParseActionShift, 5, 0)>>
      [] state = 4 /\ symbol = Sym.end -> <<Action(ParseActionReduce, 0, 1)>>
      [] state = 4 /\ symbol = Sym.ident -> <<Action(ParseActionShift, 3, 0)>>
      [] state = 5 /\ symbol \in {Sym.ident, Sym.end} -> <<Action(ParseActionReduce, 0, 3)>>
      [] state = 6 /\ symbol = Sym.end -> <<Action(ParseActionReduce, 0, 2)>>
      [] state = 8 /\ symbol = Sym.ident -> <<Action(ParseActionReduce, 0, 3), ShiftExtra>>
      [] state = 8 /\ symbol = Sym.semi -> <<ShiftExtra>>
      [] state = 9 /\ symbol = Sym.ident ->
            <<Action(ParseActionReduce, 0, 3), Action(ParseActionShift, 3, 0)>>
      [] state = 9 /\ symbol = Sym.semi -> <<Action(ParseActionReduce, 0, 3)>>
      [] OTHER -> <<>>

lookupGoto(state, symbol) ==
    CASE state = 1 /\ symbol = Sym.stmt -> 4
      [] state = 1 /\ symbol = Sym.program -> 2
      [] state = 4 /\ symbol = Sym.stmt -> 4
      [] state = 4 /\ symbol = Sym.program -> 6
      [] OTHER -> 0

\* ---- nodes and trees (specification 3) ----
NilNode == [nil |-> TRUE]

Node(symbol, parseState, startByte, endByte, children) ==
    [nil |-> FALSE, symbol |-> symbol, parseState |-> parseState, startByte |-> startByte,
     endByte |-> endByte, children |-> children, dirty |-> FALSE, hasError |-> FALSE,
     isNamed |-> symbol \in NamedSymbols, isMissing |-> FALSE]

NoTree == [id |-> 0, root |-> NilNode, source |-> <<>>, edits |-> <<>>]

\* the tree of a source that did not parse: its root carries has_error
ErrorRoot(src) == [Node(Sym.error, 0, 0, Len(src), <<>>) EXCEPT !.hasError = TRUE]

InputEdit(startByte, oldEndByte, newEndByte) ==
    [StartByte |-> startByte, OldEndByte |-> oldEndByte, NewEndByte |-> newEndByte]

\* tree.edit on one node and its subtree: nodes after the edit are shifted,
\* nodes that intersect it are marked dirty and their end follows the edit;
\* `touching` tells whether a node that only touches the edited range counts
\* as intersecting it
RECURSIVE editNode(_, _, _)
editNode(n, e, touching) ==
    LET delta == e.NewEndByte - e.OldEndByte
        before == n.endByte < e.StartByte \/ (n.endByte = e.StartByte /\ ~touching)
        after == n.startByte > e.OldEndByte \/ (n.startByte = e.OldEndByte /\ ~touching)
        kids == [i \in 1..Len(n.children) |-> editNode(n.children[i], e, touching)]
    IN IF before THEN n
       ELSE IF after
       THEN [n EXCEPT !.startByte = @ + delta, !.endByte = @ + delta, !.children = kids]
       ELSE [n EXCEPT !.dirty = TRUE,
                      !.startByte = IF @ <= e.StartByte THEN @ ELSE e.NewEndByte,
                      !.endByte = IF @ <= e.StartByte THEN @
                                  ELSE IF @ >= e.OldEndByte THEN @ + delta
                                  ELSE e.NewEndByte,
                      !.children = kids]

\* Tree.Edit
TreeEdit(tree, e, touching) ==
    [tree EXCEPT !.edits = Append(@, e), !.root = editNode(@, e, touching)]

\* ---- reuse cursor (incremental.go) ----
NilCursor == [nil |-> TRUE]

ReuseFrame(node, underDirty) == [node |-> node, underDirty |-> underDirty]

MinStartByte(edits) ==
    CHOOSE s \in {edits[i].StartByte : i \in 1..Len(edits)} :
        \A i \in 1..Len(edits) : s <= edits[i].StartByte

\* reuseCursor.reset
reset(oldTree, source) ==
    IF oldTree.root = NilNode THEN NilCursor
    ELSE [nil |-> FALSE, sourceLen |-> Len(source), oldSource |-> oldTree.source,
          newSource |-> source,
          minEditAt |-> IF Len(oldTree.edits) > 0 THEN MinStartByte(oldTree.edits) ELSE 0,
          hasEdits |-> Len(oldTree.edits) > 0,
          stack |-> <<ReuseFrame(oldTree.root, FALSE)>>, next |-> NilNode,
          cachedStart |-> 0, cachedStartValid |-> FALSE, cached |-> <<>>,
          written |-> {}, popped |-> <<>>, yielded |-> <<>>]

\* nodeBytesEqual: the bytes [start, end) of both sources, start and end
\* being the node's offsets after the edits
nodeBytesEqual(startByte, endByte, oldSource, newSource) ==
    IF endByte < startByte THEN FALSE
    ELSE IF endByte > Len(oldSource) \/ endByte > Len(newSource) THEN FALSE
    ELSE SubSeq(oldSource, startByte + 1, endByte) = SubSeq(newSource, startByte + 1, endByte)

\* the dirty flag left as it is
KeepDirty(cur, c) == cur

\* advance, the dirty flag: cleared when the node's bytes are unchanged
ClearDirty(cur, c) ==
    IF cur.dirty /\ nodeBytesEqual(cur.startByte, cur.endByte, c.oldSource, c.newSource)
    THEN [cur EXCEPT !.dirty = FALSE]
    ELSE cur

\* a node of the old tree, named by its symbol and its range after the edits
NodeKey(n) == <<n.symbol, n.startByte, n.endByte>>

\* advance, history: the old-tree nodes that `cur.dirty = false` wrote to
DirtyWrites(cur, c) == IF ClearDirty(cur, c) # cur THEN {NodeKey(cur)} ELSE {}

\* the frames of the children, the rightmost on top
PushChildrenInOrder(stack, cur, childUnderDirty) ==
    stack \o [i \in 1..Len(cur.children) |-> ReuseFrame(cur.children[i], childUnderDirty)]

\* advance, the frames of the children, the leftmost on top
PushChildren(stack, cur, childUnderDirty) ==
    stack \o [i \in 1..Len(cur.children) |->
                ReuseFrame(cur.children[Len(cur.children) + 1 - i], childUnderDirty)]

\* the tests without the one on nodes under a dirty ancestor
YieldsUnderDirty(c, frame, cur) ==
    /\ ~(cur.hasError \/ cur.endByte <= cur.startByte \/ cur.endByte > c.sourceLen)
    /\ ~cur.dirty

\* advance, the tests after the children are pushed: TRUE when cur is yielded
Yields(c, frame, cur) ==
    /\ ~(frame.underDirty /\ c.hasEdits /\ cur.endByte <= c.minEditAt)
    /\ ~(cur.hasError \/ cur.endByte <= cur.startByte \/ cur.endByte > c.sourceLen)
    /\ ~cur.dirty

\* reuseCursor.advance: the next reusable node in pre-order, NilNode at the end
RECURSIVE advance(_)
RECURSIVE advanceFrame(_, _, _)
advanceFrame(c, frame, cur) ==
    IF Yields(c, frame, cur)
    THEN [c |-> [c EXCEPT !.stack = PushChildren(@, cur, frame.underDirty \/ cur.dirty),
                          !.yielded = Append(@, [node |-> cur, at |-> Len(c.popped)])],
          node |-> cur]
    ELSE advance([c EXCEPT !.stack = PushChildren(@, cur, frame.underDirty \/ cur.dirty)])

advance(c) ==
    IF c.stack = <<>> THEN [c |-> c, node |-> NilNode]
    ELSE advanceFrame([c EXCEPT !.stack = SubSeq(@, 1, Len(@) - 1),
                                !.written = @ \cup DirtyWrites(c.stack[Len(c.stack)].node, c),
                                !.popped = Append(@, c.stack[Len(c.stack)])],
                      c.stack[Len(c.stack)], ClearDirty(c.stack[Len(c.stack)].node, c))

\* reuseCursor.peek: the cursor with c.next filled
SetNext(a) == [a.c EXCEPT !.next = a.node]

\* a peek that drops the node it holds
peekAdvances(c) == SetNext(advance(c))

peek(c) == IF c.next # NilNode THEN c ELSE SetNext(advance(c))

\* reuseCursor.pop, after a peek
pop(c) == [c EXCEPT !.next = NilNode]

\* the loops of reuseCursor.candidates; st.inner: the loop that collects
RECURSIVE candidatesLoop(_)
RECURSIVE candidatesPeeked(_, _)
candidatesPeeked(st, c) ==
    IF c.next = NilNode THEN c
    ELSE IF st.inner
    THEN IF c.next.startByte # st.start THEN c
         ELSE candidatesLoop([st EXCEPT !.c = pop([c EXCEPT !.cached = Append(@, c.next)])])
    ELSE IF c.next.startByte < st.start THEN candidatesLoop([st EXCEPT !.c = pop(c)])
         ELSE IF c.next.startByte > st.start THEN c
         ELSE candidatesLoop([st EXCEPT !.c = c, !.inner = TRUE])

candidatesLoop(st) == candidatesPeeked(st, peek(st.c))

CandidatesOf(c) == [c |-> c, list |-> c.cached]

\* candidates without the two tests on the cached offset
candidatesNoCache(c, start) ==
    IF c = NilCursor THEN [c |-> c, list |-> <<>>]
    ELSE CandidatesOf(candidatesLoop(
                          [c |-> [c EXCEPT !.cached = <<>>, !.cachedStart = start,
                                           !.cachedStartValid = TRUE],
                           start |-> start, inner |-> FALSE]))

\* reuseCursor.candidates: the cursor after the call and the list returned
candidates(c, start) ==
    IF c = NilCursor THEN [c |-> c, list |-> <<>>]
    ELSE IF c.cachedStartValid /\ start = c.cachedStart THEN [c |-> c, list |-> c.cached]
    ELSE IF c.cachedStartValid /\ start < c.cachedStart THEN [c |-> c, list |-> <<>>]
    ELSE CandidatesOf(candidatesLoop(
                          [c |-> [c EXCEPT !.cached = <<>>, !.cachedStart = start,
                                           !.cachedStartValid = TRUE],
                           start |-> start, inner |-> FALSE]))

\* ---- grafting (incremental.go) ----
\* newGLRStack
newGLRStack(initial) ==
    [entries |-> <<StackEntry(initial, NilNode)>>, score |-> 0, dead |-> FALSE,
     accepted |-> FALSE]

ShiftsOf(actions) == SelectSeq(actions, LAMBDA act : act.Type = ParseActionShift)

\* the graft rule that takes any goto state for an inner node
reuseTargetStateAnyGoto(state, n, lookahead) ==
    IF Len(n.children) = 0 THEN [state |-> 0, ok |-> FALSE]
    ELSE [state |-> lookupGoto(state, n.symbol), ok |-> lookupGoto(state, n.symbol) # 0]

\* Parser.reuseTargetState
reuseTargetState(state, n, lookahead) ==
    IF Len(n.children) = 0
    THEN LET actions == lookupAction(state, n.symbol)
         IN IF n.symbol # lookahead.Symbol THEN [state |-> 0, ok |-> FALSE]
            ELSE IF Len(actions) = 0 THEN [state |-> 0, ok |-> FALSE]
            ELSE IF actions[1].Type = ParseActionShift /\ actions[1].Extra
            THEN [state |-> state, ok |-> TRUE]
            ELSE IF ShiftsOf(actions) # <<>>
            THEN [state |-> ShiftsOf(actions)[1].State, ok |-> TRUE]
            ELSE [state |-> 0, ok |-> FALSE]
    ELSE LET gotoState == lookupGoto(state, n.symbol)
         IN IF gotoState = 0 THEN [state |-> 0, ok |-> FALSE]
            ELSE IF gotoState # n.parseState THEN [state |-> 0, ok |-> FALSE]
            ELSE [state |-> gotoState, ok |-> TRUE]

\* the loop that discards tokens when the token source cannot skip
RECURSIVE NextUntil(_)
NextUntil(st) ==
    IF st.tok.Symbol # 0 /\ st.tok.StartByte < st.endByte
    THEN LET nx == TSNext(st.ts) IN NextUntil([st EXCEPT !.tok = nx.tok, !.ts = nx.ts])
    ELSE st

\* the last candidate that reuseTargetState accepts, 0 when there is none
LastReusable(list, state, lookahead) ==
    LET hits == {i \in 1..Len(list) : reuseTargetState(state, list[i], lookahead).ok}
    IN IF hits = {} THEN 0 ELSE CHOOSE i \in hits : \A k \in hits : i >= k

\* the first candidate that reuseTargetState accepts, 0 when there is none
FirstReusable(list, state, lookahead) ==
    LET hits == {i \in 1..Len(list) : reuseTargetState(state, list[i], lookahead).ok}
    IN IF hits = {} THEN 0 ELSE CHOOSE i \in hits : \A k \in hits : i <= k

Reused(r, s, idx) == [tok |-> r.tok, ok |-> TRUE, s |-> s, ts |-> r.ts, idx |-> idx]

\* tryReuseSubtree once reuseTargetState accepted the candidate n
reuseNode(s, lookahead, ts, idx, n, nextState) ==
    IF n.endByte = idx.sourceLen
    THEN Reused([tok |-> Token(0, idx.sourceLen, idx.sourceLen), ts |-> ts],
                push(s, nextState, n), idx)
    ELSE IF ts.skippable
    THEN Reused(TSSkipToByte(ts, n.endByte), push(s, nextState, n), idx)
    ELSE Reused(NextUntil([tok |-> lookahead, ts |-> ts, endByte |-> n.endByte]),
                push(s, nextState, n), idx)

\* tryReuseSubtree that reads a token when it grafts nothing
reuseCandidateOrNext(s, lookahead, ts, cand, i) ==
    IF Len(cand.list) = 0 \/ i = 0
    THEN [tok |-> TSNext(ts).tok, ok |-> FALSE, s |-> s, ts |-> TSNext(ts).ts, idx |-> cand.c]
    ELSE reuseNode(s, lookahead, ts, cand.c, cand.list[i],
                   reuseTargetState(top(s).state, cand.list[i], lookahead).state)

\* tryReuseSubtree on the candidates found, i the first reusable one
reuseCandidate(s, lookahead, ts, cand, i) ==
    IF Len(cand.list) = 0 \/ i = 0
    THEN [tok |-> lookahead, ok |-> FALSE, s |-> s, ts |-> ts, idx |-> cand.c]
    ELSE reuseNode(s, lookahead, ts, cand.c, cand.list[i],
                   reuseTargetState(top(s).state, cand.list[i], lookahead).state)

reuseAmong(s, lookahead, ts, cand) ==
    reuseCandidate(s, lookahead, ts, cand, FirstReusable(cand.list, top(s).state, lookahead))

\* Parser.tryReuseSubtree
tryReuseSubtree(s, lookahead, ts, idx) ==
    reuseAmong(s, lookahead, ts, candidates(idx, lookahead.StartByte))

\* ---- parser driver (specification 4.3, one stack version) ----
\* shift, reduce or accept at the lookahead d.tok
\* shift: push the leaf of the lookahead, take the next token
ShiftStep(d, act, nx) ==
    [d EXCEPT !.s = push(@, IF act.Extra THEN top(d.s).state ELSE act.State,
                         Node(d.tok.Symbol, act.State, d.tok.StartByte, d.tok.EndByte, <<>>)),
              !.tok = nx.tok, !.ts = nx.ts, !.allocs = @ + 1]

\* reduce: pop the children, push their parent in the goto state
ReducePush(d, prod, kids, below, gotoState) ==
    [d EXCEPT !.s = push(below, gotoState,
                         Node(prod.symbol, gotoState, kids[1].startByte,
                              kids[prod.childCount].endByte, kids)),
              !.allocs = @ + 1]

ReducePop(d, prod, below) ==
    ReducePush(d, prod,
               [i \in 1..prod.childCount |->
                   d.s.entries[Len(d.s.entries) - prod.childCount + i].node],
               below, lookupGoto(top(below).state, prod.symbol))

ReduceStep(d, prod) ==
    ReducePop(d, prod,
              [d.s EXCEPT !.entries = SubSeq(@, 1, Len(@) - prod.childCount)])

ActOn(d, actions) ==
    IF Len(actions) = 0 THEN [d EXCEPT !.status = "error"]
    ELSE CASE actions[1].Type = ParseActionShift -> ShiftStep(d, actions[1], TSNext(d.ts))
           [] actions[1].Type = ParseActionReduce ->
                ReduceStep(d, Productions[actions[1].Production])
           [] actions[1].Type = ParseActionAccept -> [d EXCEPT !.status = "accepted"]

ActionStep(d) == ActOn(d, lookupAction(top(d.s).state, d.tok.Symbol))

\* one driver step: graft an old subtree at the lookahead, else act on it
AfterReuse(d, r) ==
    IF r.ok
    THEN [d EXCEPT !.s = r.s, !.tok = r.tok, !.ts = r.ts, !.idx = r.idx, !.reused = @ + 1,
                   !.grafted = @ \cup {top(r.s).node}]
    ELSE ActionStep([d EXCEPT !.idx = r.idx])

DriverStep(d) == AfterReuse(d, tryReuseSubtree(d.s, d.tok, d.ts, d.idx))

RECURSIVE DriverLoop(_)
DriverLoop(d) == IF d.status # "run" THEN d ELSE DriverLoop(DriverStep(d))

\* the driver from the first token to accept or error
DriverStart(first, idx) ==
    [s |-> newGLRStack(StartState), tok |-> first.tok, ts |-> first.ts, idx |-> idx,
     status |-> "run", allocs |-> 0, reused |-> 0, grafted |-> {}]

RunDriver(source, idx, skippable) ==
    DriverLoop(DriverStart(TSNext(NewTokenSource(source, skippable)), idx))

TreeOf(d, source, id) ==
    [id |-> id, source |-> source, edits |-> <<>>,
     root |-> IF d.status = "accepted" THEN top(d.s).node ELSE ErrorRoot(source)]

\* parse(source): a cold parse
Parse(source, id) == TreeOf(RunDriver(source, NilCursor, TRUE), source, id)

NoEditsFastPathNever(oldTree) == FALSE

\* the no-edit path of parse_incremental
NoEditsFastPath(oldTree) == Len(oldTree.edits) = 0

\* parse_incremental(source, old_tree): the tree and the work done for it
Reparsed(d, source, id) ==
    [tree |-> TreeOf(d, source, id), lexed |-> d.ts.lexed, allocs |-> d.allocs,
     reused |-> d.reused, status |-> d.status, grafted |-> d.grafted,
     written |-> IF d.idx = NilCursor THEN {} ELSE d.idx.written]

ParseIncremental(source, oldTree, skippable, id) ==
    IF NoEditsFastPath(oldTree)
    THEN [tree |-> oldTree, lexed |-> 0, allocs |-> 0, reused |-> 0, status |-> "same",
          grafted |-> {}, written |-> {}]
    ELSE Reparsed(RunDriver(source, reset(oldTree, source), skippable), source, id)

\* ---- the editing session ----
EditTexts == SeqsUpTo(Bytes, MaxInsertLen)

Splice(src, startByte, oldEndByte, text) ==
    SubSeq(src, 1, startByte) \o text \o SubSeq(src, oldEndByte + 1, Len(src))

NoIncrHist ==
    [old |-> NoTree, lexed |-> 0, allocs |-> 0, reused |-> 0, status |-> "none",
     hadEdits |-> FALSE, grafted |-> {}, written |-> {}]

IncrIdle ==
    /\ incrPc = "idle"
    /\ incrCfg = [touching |-> FALSE, skippable |-> FALSE]
    /\ incrTree = NoTree
    /\ incrText = <<>>
    /\ incrResult = NoTree
    /\ incrHist = NoIncrHist

IncrInit ==
    /\ incrPc = "start"
    /\ incrCfg \in [touching : BOOLEAN, skippable : BOOLEAN]
    /\ incrTree = NoTree
    /\ incrText = <<>>
    /\ incrResult = NoTree
    /\ incrHist = NoIncrHist

\* tree = parser.Parse(source)
IncrParse(source) ==
    /\ incrPc = "start"
    /\ incrTree' = Parse(source, 1)
    /\ incrText' = source
    /\ incrPc' = "parsed"
    /\ UNCHANGED <<incrCfg, incrResult, incrHist, incrOthers>>

\* the text is edited and the edit is reported: tree.Edit(edit)
IncrEdit(startByte, oldEndByte, text) ==
    /\ incrPc \in {"parsed", "edited"}
    /\ Len(incrTree.edits) < 2
    /\ startByte <= oldEndByte /\ oldEndByte <= Len(incrText)
    /\ startByte < oldEndByte \/ text # <<>>
    /\ Len(incrText) - (oldEndByte - startByte) + Len(text) <= MaxSourceLen
    /\ incrText' = Splice(incrText, startByte, oldEndByte, text)
    /\ incrTree' = TreeEdit(incrTree, InputEdit(startByte, oldEndByte, startByte + Len(text)),
                            incrCfg.touching)
    /\ incrPc' = "edited"
    /\ UNCHANGED <<incrCfg, incrResult, incrHist, incrOthers>>

\* result = parser.ParseIncremental(source, tree)
IncrParseIncremental(source) ==
    /\ incrPc \in {"parsed", "edited"}
    /\ (incrPc = "edited") => source = incrText
    /\ \E r \in {ParseIncremental(source, incrTree, incrCfg.skippable, 2)} :
          /\ incrResult' = r.tree
          /\ incrHist' = [old |-> incrTree, lexed |-> r.lexed, allocs |-> r.allocs,
                          reused |-> r.reused, status |-> r.status,
                          hadEdits |-> Len(incrTree.edits) > 0,
                          grafted |-> r.grafted, written |-> r.written]
    /\ incrText' = source
    /\ incrPc' = "reparsed"
    /\ UNCHANGED <<incrCfg, incrTree, incrOthers>>

IncrNext ==
    \/ \E source \in Sources : IncrParse(source)
    \/ \E startByte \in 0..MaxSourceLen, oldEndByte \in 0..MaxSourceLen, text \in EditTexts :
          IncrEdit(startByte, oldEndByte, text)
    \/ \E source \in Sources : IncrParseIncremental(source)

(***************************************************************************)
(* Arena slice slabs (arena.go): allocNodeSlice, allocFieldIDSlice and the *)
(* slab part of reset.  A slab is its data cells and its used mark; a      *)
(* slice is a slab index (0-based, as the cursors) and a half-open range   *)
(* of its cells.                                                           *)
(***************************************************************************)
\* the default capacity of a slab, scaled down from 2*1024 / 32*1024
SlabCap == 2

\* the largest allocation size asked for; larger than SlabCap
MaxAllocLen == 3

\* slabs an arena grows to in a run
MaxSlabs == 3

\* allocation calls in a run
MaxAllocs == 4

\* sizes asked for: none, one cell, a whole default slab, more than a default slab
AllocSizes == {0 - 1, 1, SlabCap, MaxAllocLen}

defaultChildSliceCap == SlabCap

defaultFieldSliceCap == SlabCap

\* make([]T, capacity): zeroed cells, nothing used
NewSlab(capacity) == [data |-> [j \in 1..capacity |-> 0], used |-> 0]

\* a nil slice
NilSlice == [nil |-> TRUE, slab |-> 0, start |-> 0, end |-> 0]

SliceOf(i, start, end) == [nil |-> FALSE, slab |-> i, start |-> start, end |-> end]

\* the cursor after the range checks at the head of an allocation
CursorIn(slabs, cursor) == IF cursor < 0 \/ cursor >= Len(slabs) THEN 0 ELSE cursor

\* len(a.childSlabs) == 0: a first slab of the default capacity
WithFirstSlab(slabs, capacity) == IF Len(slabs) = 0 THEN <<NewSlab(capacity)>> ELSE slabs

\* the slab list with slab i present: a new slab of capacity max(default, n)
GrowTo(slabs, i, n, capacity) ==
    IF i >= Len(slabs) THEN Append(slabs, NewSlab(Max(capacity, n))) ELSE slabs

SlabFits(slab, n) == Len(slab.data) - slab.used >= n

SlabBumpNone(usedMark, n) == usedMark

\* slab.used += n
SlabBump(usedMark, n) == usedMark + n

\* one cell of out after clear(out)
ClearedKeep(v) == v

ClearedCell(v) == 0

\* clear(out) on the cells start..end-1 (0-based) of a slab's data
ClearOut(data, start, end) ==
    [j \in 1..Len(data) |-> IF j > start /\ j <= end THEN ClearedCell(data[j]) ELSE data[j]]

\* the allocation loop from slab i on: the slabs, the cursor and the slice
RECURSIVE AllocLoop(_, _, _, _)
AllocLoop(slabs, i, n, capacity) ==
    LET grown == GrowTo(slabs, i, n, capacity)
        slab  == grown[i + 1]
    IN IF ~SlabFits(slab, n) THEN AllocLoop(grown, i + 1, n, capacity)
       ELSE [slabs  |-> [grown EXCEPT ![i + 1].used = SlabBump(slab.used, n)],
             cursor |-> i,
             out    |-> SliceOf(i, slab.used, SlabBump(slab.used, n))]

\* nodeArena.allocNodeSlice
allocNodeSlice(slabs, cursor, n) ==
    IF n <= 0 THEN [slabs |-> slabs, cursor |-> cursor, out |-> NilSlice]
    ELSE AllocLoop(WithFirstSlab(slabs, defaultChildSliceCap),
                   CursorIn(WithFirstSlab(slabs, defaultChildSliceCap), cursor),
                   n, defaultChildSliceCap)

\* allocFieldIDSlice after its loop returned r: out is cleared
FieldCleared(r) ==
    [r EXCEPT !.slabs[r.out.slab + 1].data = ClearOut(@, r.out.start, r.out.end)]

\* nodeArena.allocFieldIDSlice
allocFieldIDSlice(slabs, cursor, n) ==
    IF n <= 0 THEN [slabs |-> slabs, cursor |-> cursor, out |-> NilSlice]
    ELSE FieldCleared(AllocLoop(WithFirstSlab(slabs, defaultFieldSliceCap),
                                CursorIn(WithFirstSlab(slabs, defaultFieldSliceCap), cursor),
                                n, defaultFieldSliceCap))

\* nodeArena.reset on the child slabs: used cells set to nil, used to 0
ResetChildSlabs(slabs) ==
    [i \in 1..Len(slabs) |->
        [data |-> [j \in 1..Len(slabs[i].data) |->
                      IF j <= slabs[i].used THEN 0 ELSE slabs[i].data[j]],
         used |-> 0]]

\* nodeArena.reset on the field slabs: used to 0, the cells are left as they are
ResetFieldSlabs(slabs) == [i \in 1..Len(slabs) |-> [slabs[i] EXCEPT !.used = 0]]

\* the cells start..end-1 of a slab's data
CellsOf(slabs, sl) ==
    IF sl.nil THEN <<>>
    ELSE [j \in 1..(sl.end - sl.start) |-> slabs[sl.slab + 1].data[sl.start + j]]

\* a caller stores non-zero values in every cell of a slice it was given
Filled(slabs, sl) ==
    [slabs EXCEPT ![sl.slab + 1].data =
        [j \in 1..Len(@) |-> IF j > sl.start /\ j <= sl.end THEN 1 ELSE @[j]]]

NoSlabCall == [kind |-> "none", n |-> 0, out |-> NilSlice, cells |-> <<>>, stale |-> FALSE]

NoSlabHist == [child |-> <<>>, field |-> <<>>, resets |-> 0, allocs |-> 0, last |-> NoSlabCall]

SlabIdle ==
    /\ childSlabs = <<>>
    /\ fieldSlabs = <<>>
    /\ childSlabCursor = 0
    /\ fieldSlabCursor = 0
    /\ slabHist = NoSlabHist

\* newNodeArena: one child slab and one field slab of the default capacity
SlabInit ==
    /\ childSlabs = <<NewSlab(defaultChildSliceCap)>>
    /\ fieldSlabs = <<NewSlab(defaultFieldSliceCap)>>
    /\ childSlabCursor = 0
    /\ fieldSlabCursor = 0
    /\ slabHist = NoSlabHist

LiveCount == Len(slabHist.child) + Len(slabHist.field)

Recorded(list, out) == IF out.nil THEN list ELSE Append(list, out)

\* out := a.allocNodeSlice(n)
AllocNodeSlice(n) ==
    /\ slabHist.allocs < MaxAllocs
    /\ \E r \in {allocNodeSlice(childSlabs, childSlabCursor, n)} :
        /\ Len(r.slabs) <= MaxSlabs
        /\ childSlabs' = r.slabs
        /\ childSlabCursor' = r.cursor
        /\ slabHist' = [slabHist EXCEPT
               !.child = Recorded(@, r.out), !.allocs = @ + 1,
               !.last = [kind |-> "child", n |-> n, out |-> r.out,
                         cells |-> CellsOf(r.slabs, r.out), stale |-> FALSE]]
    /\ UNCHANGED <<fieldSlabs, fieldSlabCursor, slabOthers>>

\* some cell of the slice was non-zero in the slabs before the call
StaleBefore(slabs, out) ==
    /\ ~out.nil
    /\ out.slab < Len(slabs)
    /\ \E j \in (out.start + 1)..out.end : slabs[out.slab + 1].data[j] # 0

\* out := a.allocFieldIDSlice(n)
AllocFieldIDSlice(n) ==
    /\ slabHist.allocs < MaxAllocs
    /\ \E r \in {allocFieldIDSlice(fieldSlabs, fieldSlabCursor, n)} :
        /\ Len(r.slabs) <= MaxSlabs
        /\ fieldSlabs' = r.slabs
        /\ fieldSlabCursor' = r.cursor
        /\ slabHist' = [slabHist EXCEPT
               !.field = Recorded(@, r.out), !.allocs = @ + 1,
               !.last = [kind |-> "field", n |-> n, out |-> r.out,
                         cells |-> CellsOf(r.slabs, r.out),
                         stale |-> StaleBefore(fieldSlabs, r.out)]]
    /\ UNCHANGED <<childSlabs, childSlabCursor, slabOthers>>

\* the caller stores the children in the child slice it was just given
FillNodeSlice ==
    /\ slabHist.last.kind = "child"
    /\ ~slabHist.last.out.nil
    /\ childSlabs' = Filled(childSlabs, slabHist.last.out)
    /\ childSlabs' # childSlabs
    /\ UNCHANGED <<fieldSlabs, childSlabCursor, fieldSlabCursor, slabHist, slabOthers>>

\* the caller stores the field ids in the field slice it was just given
FillFieldIDSlice ==
    /\ slabHist.last.kind = "field"
    /\ ~slabHist.last.out.nil
    /\ fieldSlabs' = Filled(fieldSlabs, slabHist.last.out)
    /\ fieldSlabs' # fieldSlabs
    /\ UNCHANGED <<childSlabs, childSlabCursor, fieldSlabCursor, slabHist, slabOthers>>

\* a.reset(), the slab part: every slice handed out is given up
SlabReset ==
    /\ LiveCount > 0
    /\ childSlabs' = ResetChildSlabs(childSlabs)
    /\ fieldSlabs' = ResetFieldSlabs(fieldSlabs)
    /\ childSlabCursor' = 0
    /\ fieldSlabCursor' = 0
    /\ slabHist' = [NoSlabHist EXCEPT !.resets = slabHist.resets + 1,
                                  !.allocs = slabHist.allocs]
    /\ UNCHANGED slabOthers

SlabNext ==
    \/ \E n \in AllocSizes : AllocNodeSlice(n)
    \/ \E n \in AllocSizes : AllocFieldIDSlice(n)
    \/ FillNodeSlice
    \/ FillFieldIDSlice
    \/ SlabReset

(***************************************************************************)
(* Hand-written token sources (grammars/toml_lexer.go, html_lexer.go,       *)
(* generic_lexer.go).                                                      *)
(***************************************************************************)
(***************************************************************************)
(* Hand-written token sources (grammars/toml_lexer.go, html_lexer.go,      *)
(* generic_lexer.go).  A source text is a sequence of bytes, each byte a   *)
(* one-character string; "C3" and "A9" stand for the two bytes of one      *)
(* UTF-8 encoded rune.  A language descriptor is its list of token names,  *)
(* a symbol the index of its name (0: "end").                              *)
(***************************************************************************)
Digits == {"0", "1", "2", "3", "4", "5", "6", "7", "8", "9"}

LowerLetters ==
    {"a", "b", "c", "d", "e", "f", "g", "h", "i", "j", "k", "l", "m",
     "n", "o", "p", "q", "r", "s", "t", "u", "v", "w", "x", "y", "z"}

UpperLetters ==
    {"A", "B", "C", "D", "E", "F", "G", "H", "I", "J", "K", "L", "M",
     "N", "O", "P", "Q", "R", "S", "T", "U", "V", "W", "X", "Y", "Z"}

isASCIIDigit(b) == b \in Digits

isASCIIAlpha(b) == b \in LowerLetters \cup UpperLetters

isASCIIHex(b) == b \in Digits \cup {"a", "b", "c", "d", "e", "f", "A", "B", "C", "D", "E", "F"}

\* the bytes the tokenizers skip as whitespace
WhitespaceBytes == {" ", "\t", "\n", "\r", "\f"}

\* ---- sourceCursor ----
\* the byte read at end of input
NoByte == ""

\* the byte 0x60
BackQuote == "BQ"

newSourceCursor(ts) == [ts EXCEPT !.offset = 0]

eof(ts) == ts.offset >= Len(ts.src)

peekByte(ts) == IF eof(ts) THEN NoByte ELSE ts.src[ts.offset + 1]

advanceByte(ts) == IF eof(ts) THEN ts ELSE [ts EXCEPT !.offset = @ + 1]

\* the encoded length of the rune at the cursor
RuneLen(ts) ==
    IF peekByte(ts) = "C3" /\ ts.offset + 1 < Len(ts.src) /\ ts.src[ts.offset + 2] = "A9"
    THEN 2 ELSE 1

advanceRune(ts) == IF eof(ts) THEN ts ELSE [ts EXCEPT !.offset = @ + RuneLen(ts)]

RECURSIVE advanceBytes(_, _)
advanceBytes(ts, n) ==
    IF n <= 0 \/ eof(ts) THEN ts ELSE advanceBytes(advanceByte(ts), n - 1)

\* for !eof && peekByte != stop { advanceRune }
RECURSIVE AdvanceToByte(_, _)
AdvanceToByte(ts, stop) ==
    IF eof(ts) \/ peekByte(ts) = stop THEN ts ELSE AdvanceToByte(advanceRune(ts), stop)

\* for !eof && peekByte in class { advanceByte }
RECURSIVE AdvanceWhile(_, _)
AdvanceWhile(ts, class) ==
    IF eof(ts) \/ peekByte(ts) \notin class THEN ts ELSE AdvanceWhile(advanceByte(ts), class)

\* for ts.cur.offset < target { advanceRune }
RECURSIVE AdvanceToOffset(_, _)
AdvanceToOffset(ts, target) ==
    IF ts.offset >= target \/ eof(ts) THEN ts ELSE AdvanceToOffset(advanceRune(ts), target)

matchLiteralAtCurrent(ts, lexeme) ==
    /\ ts.offset + Len(lexeme) <= Len(ts.src)
    /\ \A i \in 1..Len(lexeme) : ts.src[ts.offset + i] = lexeme[i]

\* makeToken(sym, src, start, end, ...)
makeToken(sym, start, end) == Token(sym, start, end)

\* eofToken(): the EOF symbol at the end of the source
eofToken(ts) == Token(ts.eofSymbol, Len(ts.src), Len(ts.src))

\* what a token-source call returns: the source after the call and the token
Lexed(ts, tok) == [ts |-> ts, tok |-> tok]

\* the clamped target of SkipToByte
SkipTarget(ts, offset) == IF offset < 0 THEN 0 ELSE IF offset > Len(ts.src) THEN Len(ts.src) ELSE offset

\* ---- language descriptor and token lookup ----
\* Language.SymbolByName: the index of the name, 0 when it is absent
SymbolByName(lang, name) ==
    IF \E i \in 1..Len(lang) : lang[i] = name
    THEN (CHOOSE i \in 1..Len(lang) : lang[i] = name /\ \A k \in 1..(i - 1) : lang[k] # name) - 1
    ELSE 0

\* tokenLookup.optional(names...): the first name the language has
RECURSIVE lookupOptional(_, _)
lookupOptional(lang, names) ==
    IF names = <<>> THEN 0
    ELSE IF SymbolByName(lang, Head(names)) # 0 THEN SymbolByName(lang, Head(names))
    ELSE lookupOptional(lang, Tail(names))

\* tokenLookup.require(name), the symbol
lookupRequire(lang, name) == SymbolByName(lang, name)

\* tokenLookup.err(): some required name was not found
lookupErr(lang, required) == \E i \in 1..Len(required) : SymbolByName(lang, required[i]) = 0

\* tokenSourceInitError: the EOF-only source of the OrEOF constructors
tokenSourceInitError(src) == [kind |-> "eof", src |-> src, sourceLen |-> Len(src)]

\* tokenSourceInitError.Next
InitErrorNext(ts) == Lexed(ts, Token(0, ts.sourceLen, ts.sourceLen))

NoTokenSource == [kind |-> "none"]

firstNonZeroSymbol(syms) ==
    IF \E i \in 1..Len(syms) : syms[i] # 0
    THEN syms[CHOOSE i \in 1..Len(syms) : syms[i] # 0 /\ \A k \in 1..(i - 1) : syms[k] = 0]
    ELSE 0

\* ---- TOML (grammars/toml_lexer.go) ----
TomlRequired == <<"bare_key">>

TomlMissingNumberNever(ts) == FALSE

\* NewTomlTokenSource: ts.intSym == 0 && ts.floatSym == 0
TomlMissingNumber(ts) == ts.intSym = 0 /\ ts.floatSym = 0

TomlSymbols(src, lang) ==
    [kind |-> "toml", src |-> src, offset |-> 0, done |-> FALSE,
     eofSymbol |-> SymbolByName(lang, "end"),
     docStartSym |-> lookupOptional(lang, <<"document_token1">>),
     commentSym |-> lookupOptional(lang, <<"comment">>),
     bareKeySym |-> lookupRequire(lang, "bare_key"),
     booleanSym |-> lookupOptional(lang, <<"boolean">>),
     intSym |-> lookupOptional(lang, <<"integer_token1", "integer_token2",
                                       "integer_token3", "integer_token4">>),
     floatSym |-> lookupOptional(lang, <<"float_token1", "float_token2">>),
     lineEndSym |-> lookupOptional(lang, <<"_line_ending_or_eof">>),
     eqSym |-> lookupOptional(lang, <<"=">>),
     dotSym |-> lookupOptional(lang, <<".">>),
     commaSym |-> lookupOptional(lang, <<",">>),
     lbrackSym |-> lookupOptional(lang, <<"[">>),
     rbrackSym |-> lookupOptional(lang, <<"]">>),
     lbrack2Sym |-> lookupOptional(lang, <<"[[">>),
     rbrack2Sym |-> lookupOptional(lang, <<"]]">>),
     lbraceSym |-> lookupOptional(lang, <<"{">>),
     rbraceSym |-> lookupOptional(lang, <<"}">>),
     basicStringSym |-> lookupOptional(lang, <<"_basic_string_token1">>),
     literalStringSym |-> lookupOptional(lang, <<"_literal_string_token1">>),
     emittedEOFLineEnd |-> FALSE, emittedDocStart |-> FALSE]

\* the result of a constructor: the source made and whether an error is returned
Made(ts, failed) == [ts |-> IF failed THEN NoTokenSource ELSE ts, err |-> failed]

NewTomlTokenSourceOf(lang, ts) == Made(ts, lookupErr(lang, TomlRequired) \/ TomlMissingNumber(ts))

NewTomlTokenSource(src, lang) == NewTomlTokenSourceOf(lang, TomlSymbols(src, lang))

OrEOF(made, src) == IF made.err THEN tokenSourceInitError(src) ELSE made.ts

NewTomlTokenSourceOrEOF(src, lang) == OrEOF(NewTomlTokenSource(src, lang), src)

isTomlBareKeyStart(b) == isASCIIAlpha(b) \/ isASCIIDigit(b) \/ b = "_" \/ b = "-"

isTomlBareKeyPart(b) == isTomlBareKeyStart(b)

TomlBareKeyBytes == LowerLetters \cup UpperLetters \cup Digits \cup {"_", "-"}

\* the token from start to the cursor of ts
TokenTo(ts, sym, start) == Lexed(ts, makeToken(sym, start, ts.offset))

\* makeLiteralToken / literalToken: n bytes from the cursor
makeLiteralToken(ts, sym, n) == TokenTo(advanceBytes(ts, n), sym, ts.offset)

\* TomlTokenSource.punctToken: the symbol and length matched, length 0 when none
TomlPunct(ts) ==
    IF matchLiteralAtCurrent(ts, <<"[", "[">>) /\ ts.lbrack2Sym # 0 THEN <<ts.lbrack2Sym, 2>>
    ELSE IF matchLiteralAtCurrent(ts, <<"]", "]">>) /\ ts.rbrack2Sym # 0 THEN <<ts.rbrack2Sym, 2>>
    ELSE IF peekByte(ts) = "=" /\ ts.eqSym # 0 THEN <<ts.eqSym, 1>>
    ELSE IF peekByte(ts) = "." /\ ts.dotSym # 0 THEN <<ts.dotSym, 1>>
    ELSE IF peekByte(ts) = "," /\ ts.commaSym # 0 THEN <<ts.commaSym, 1>>
    ELSE IF peekByte(ts) = "[" /\ ts.lbrackSym # 0 THEN <<ts.lbrackSym, 1>>
    ELSE IF peekByte(ts) = "]" /\ ts.rbrackSym # 0 THEN <<ts.rbrackSym, 1>>
    ELSE IF peekByte(ts) = "{" /\ ts.lbraceSym # 0 THEN <<ts.lbraceSym, 1>>
    ELSE IF peekByte(ts) = "}" /\ ts.rbraceSym # 0 THEN <<ts.rbraceSym, 1>>
    ELSE <<0, 0>>

\* the loop of scanQuotedString / scanWholeString after the opening quote:
\* a backslash escapes the next rune when escapes is TRUE
RECURSIVE QuotedBody(_, _, _)
QuotedBody(ts, quote, escapes) ==
    IF eof(ts) THEN ts
    ELSE IF escapes /\ peekByte(ts) = "\\" THEN QuotedBody(advanceRune(advanceByte(ts)), quote, escapes)
    ELSE IF peekByte(ts) = quote THEN advanceByte(ts)
    ELSE QuotedBody(advanceRune(ts), quote, escapes)

\* TomlTokenSource.scanQuotedString, once sym != 0 and the quote is at the cursor
TomlScanQuotedString(ts, quote, sym) ==
    TokenTo(QuotedBody(advanceByte(ts), quote, quote = "\""), sym, ts.offset)

\* TomlTokenSource.bareKeyOrBooleanToken
TomlBareKeySym(ts, text) ==
    IF ts.booleanSym # 0 /\ (text = <<"t", "r", "u", "e">> \/ text = <<"f", "a", "l", "s", "e">>)
    THEN ts.booleanSym ELSE ts.bareKeySym

TomlBareKeyEnd(ts, a) ==
    TokenTo(a, TomlBareKeySym(ts, SubSeq(ts.src, ts.offset + 1, a.offset)), ts.offset)

bareKeyOrBooleanToken(ts) == TomlBareKeyEnd(ts, AdvanceWhile(advanceByte(ts), TomlBareKeyBytes))

\* numberToken: an optional sign
NumSign(ts) == IF ~eof(ts) /\ peekByte(ts) \in {"+", "-"} THEN advanceByte(ts) ELSE ts

TomlRadixPrefixes ==
    {<<"0", "x">>, <<"0", "X">>, <<"0", "o">>, <<"0", "O">>, <<"0", "b">>, <<"0", "B">>}

\* numberToken: the fraction after the integer digits; r.float tells a float
NumFraction(ts) ==
    IF ~eof(ts) /\ peekByte(ts) = "."
    THEN [ts |-> AdvanceWhile(advanceByte(ts), Digits \cup {"_"}), float |-> TRUE]
    ELSE [ts |-> ts, float |-> FALSE]

\* numberToken: the exponent, introduced by a byte of marks
NumExponent(r, marks) ==
    IF ~eof(r.ts) /\ peekByte(r.ts) \in marks
    THEN [ts |-> AdvanceWhile(NumSign(advanceByte(r.ts)), Digits \cup {"_"}), float |-> TRUE]
    ELSE r

\* numberToken: the cursor after the number and whether it is a float
TomlNumberBody(ts) ==
    IF \E p \in TomlRadixPrefixes : matchLiteralAtCurrent(ts, p)
    THEN [ts |-> AdvanceWhile(advanceByte(advanceByte(ts)),
                              Digits \cup {"a", "b", "c", "d", "e", "f", "A", "B", "C", "D", "E", "F", "_"}),
          float |-> FALSE]
    ELSE NumExponent(NumFraction(AdvanceWhile(ts, Digits \cup {"_"})), {"e", "E"})

TomlNumberEnd(ts, r) ==
    TokenTo(r.ts, IF r.float THEN firstNonZeroSymbol(<<ts.floatSym, ts.intSym>>) ELSE ts.intSym,
            ts.offset)

\* TomlTokenSource.numberToken
TomlNumberToken(ts) == TomlNumberEnd(ts, TomlNumberBody(NumSign(ts)))

\* the newline case without the mark of a line end at the end of input
TomlNewlineUnmarked(ts, a) == TokenTo(a, ts.lineEndSym, ts.offset)

\* Next: the newline case, a the source after advanceByte
TomlNewline(ts, a) ==
    TokenTo(IF eof(a) THEN [a EXCEPT !.emittedEOFLineEnd = TRUE] ELSE a, ts.lineEndSym, ts.offset)

\* the end of input without the mark of the line end returned
TomlAtEOFUnmarked(ts) ==
    IF ts.lineEndSym # 0 /\ ~ts.emittedEOFLineEnd
    THEN Lexed(ts, Token(ts.lineEndSym, Len(ts.src), Len(ts.src)))
    ELSE Lexed([ts EXCEPT !.done = TRUE], eofToken(ts))

\* Next at end of input
TomlAtEOF(ts) ==
    IF ts.lineEndSym # 0 /\ ~ts.emittedEOFLineEnd
    THEN Lexed([ts EXCEPT !.emittedEOFLineEnd = TRUE], Token(ts.lineEndSym, Len(ts.src), Len(ts.src)))
    ELSE Lexed([ts EXCEPT !.done = TRUE], eofToken(ts))

UnknownByteKept(ts) == ts

\* Next: an unknown byte is consumed
UnknownByte(ts) == advanceRune(ts)

\* TomlTokenSource.Next: the loop
RECURSIVE TomlNextLoop(_)
TomlNextLoop(ts) ==
    IF ~ts.emittedDocStart /\ ts.docStartSym # 0
    THEN Lexed([ts EXCEPT !.emittedDocStart = TRUE], Token(ts.docStartSym, ts.offset, ts.offset))
    ELSE IF eof(ts) THEN TomlAtEOF(ts)
    ELSE IF peekByte(ts) \in {" ", "\t", "\r", "\f"} THEN TomlNextLoop(advanceByte(ts))
    ELSE IF peekByte(ts) = "\n"
    THEN IF ts.lineEndSym # 0 THEN TomlNewline(ts, advanceByte(ts))
         ELSE TomlNextLoop(advanceByte(ts))
    ELSE IF peekByte(ts) = "#"
    THEN IF ts.commentSym # 0 THEN TokenTo(AdvanceToByte(ts, "\n"), ts.commentSym, ts.offset)
         ELSE TomlNextLoop(AdvanceToByte(ts, "\n"))
    ELSE IF TomlPunct(ts)[2] # 0 THEN makeLiteralToken(ts, TomlPunct(ts)[1], TomlPunct(ts)[2])
    ELSE IF peekByte(ts) = "\"" /\ ts.basicStringSym # 0
    THEN TomlScanQuotedString(ts, "\"", ts.basicStringSym)
    ELSE IF peekByte(ts) = "'" /\ ts.literalStringSym # 0
    THEN TomlScanQuotedString(ts, "'", ts.literalStringSym)
    ELSE IF isASCIIDigit(peekByte(ts)) \/ peekByte(ts) \in {"+", "-"} THEN TomlNumberToken(ts)
    ELSE IF isTomlBareKeyStart(peekByte(ts)) THEN bareKeyOrBooleanToken(ts)
    ELSE TomlNextLoop(UnknownByte(ts))

\* TomlTokenSource.Next
TomlNext(ts) == IF ts.done THEN Lexed(ts, eofToken(ts)) ELSE TomlNextLoop(ts)

\* the skip without the forward loop
SkipCursorNoAdvance(ts, target) == IF target < ts.offset THEN newSourceCursor(ts) ELSE ts

\* SkipToByte: rewind when the target is behind the cursor, then advance by
\* runes until the cursor is at or after the target
SkipCursor(ts, target) ==
    AdvanceToOffset(IF target < ts.offset THEN newSourceCursor(ts) ELSE ts, target)

SkipEnd(ts, next) == IF eof(ts) THEN Lexed([ts EXCEPT !.done = TRUE], eofToken(ts)) ELSE next

\* TomlTokenSource.SkipToByte
TomlSkipTo(ts, target) ==
    SkipCursor([ts EXCEPT !.done = FALSE, !.emittedEOFLineEnd = FALSE,
                          !.emittedDocStart = (ts.docStartSym = 0 \/ target > 0)], target)

TomlSkipToByte(ts, offset) ==
    SkipEnd(TomlSkipTo(ts, SkipTarget(ts, offset)),
            TomlNext(TomlSkipTo(ts, SkipTarget(ts, offset))))

\* ---- HTML (grammars/html_lexer.go) ----
HTMLRequired == <<"<", "</", ">", "tag_name">>

\* Language.TokenSymbolsByName: every symbol with the name, in order
TokenSymbolsByName(lang, name) ==
    SelectSeq([i \in 1..Len(lang) |-> IF lang[i] = name THEN i - 1 ELSE 0 - 1],
              LAMBDA s : s >= 0)

\* the last tag_name symbol, 0 when there is none
LastTagName(syms) == IF Len(syms) = 0 THEN 0 ELSE syms[Len(syms)]

OrElse(sym, fallback) == IF sym = 0 THEN fallback ELSE sym

HTMLMissingTextNever(ts) == FALSE

\* NewHTMLTokenSource: ts.textSym == 0
HTMLMissingText(ts) == ts.textSym = 0

HTMLSymbols(src, lang) ==
    [kind |-> "html", src |-> src, offset |-> 0, done |-> FALSE,
     inTag |-> FALSE, inEndTag |-> FALSE, expectTagName |-> FALSE,
     eofSymbol |-> SymbolByName(lang, "end"),
     ltSym |-> lookupRequire(lang, "<"),
     ltSlashSym |-> lookupRequire(lang, "</"),
     gtSym |-> lookupRequire(lang, ">"),
     slashGtSym |-> lookupOptional(lang, <<"/>">>),
     eqSym |-> lookupOptional(lang, <<"=">>),
     openTagNameSym |-> lookupOptional(lang, <<"tag_name">>),
     endTagNameSym |-> OrElse(LastTagName(TokenSymbolsByName(lang, "tag_name")),
                              lookupOptional(lang, <<"tag_name">>)),
     attrNameSym |-> OrElse(lookupOptional(lang, <<"attribute_name">>),
                            lookupOptional(lang, <<"tag_name">>)),
     attrValueSym |-> OrElse(lookupOptional(lang, <<"attribute_value">>),
                             lookupOptional(lang, <<"text">>)),
     textSym |-> lookupOptional(lang, <<"text">>),
     commentSym |-> lookupOptional(lang, <<"comment">>)]

NewHTMLTokenSourceOf(lang, ts) == Made(ts, lookupErr(lang, HTMLRequired) \/ HTMLMissingText(ts))

NewHTMLTokenSource(src, lang) == NewHTMLTokenSourceOf(lang, HTMLSymbols(src, lang))

NewHTMLTokenSourceOrEOF(src, lang) == OrEOF(NewHTMLTokenSource(src, lang), src)

isHTMLNameStart(b) == isASCIIAlpha(b) \/ b = "_" \/ b = ":"

isHTMLNamePart(b) == isHTMLNameStart(b) \/ isASCIIDigit(b) \/ b = "-" \/ b = "."

HTMLNameBytes == LowerLetters \cup UpperLetters \cup Digits \cup {"_", ":", "-", "."}

\* for !eof { if match(close) { advanceBytes(len(close)); break }; advanceRune }
RECURSIVE AdvancePast(_, _)
AdvancePast(ts, close) ==
    IF eof(ts) THEN ts
    ELSE IF matchLiteralAtCurrent(ts, close) THEN advanceBytes(ts, Len(close))
    ELSE AdvancePast(advanceRune(ts), close)

\* HTMLTokenSource.commentToken applies
HTMLAtComment(ts) == ts.commentSym # 0 /\ matchLiteralAtCurrent(ts, <<"<", "!", "-", "-">>)

HTMLCommentToken(ts) ==
    TokenTo(AdvancePast(advanceBytes(ts, 4), <<"-", "-", ">">>), ts.commentSym, ts.offset)

\* HTMLTokenSource.textToken
HTMLTextToken(ts) == TokenTo(AdvanceToByte(ts, "<"), ts.textSym, ts.offset)

\* HTMLTokenSource.quotedAttributeValue
quotedAttributeValue(ts) ==
    TokenTo(QuotedBody(advanceByte(ts), peekByte(ts), FALSE), ts.attrValueSym, ts.offset)

HTMLNameSym(ts) ==
    IF ts.expectTagName THEN (IF ts.inEndTag THEN ts.endTagNameSym ELSE ts.openTagNameSym)
    ELSE ts.attrNameSym

\* HTMLTokenSource.nameToken
HTMLNameToken(ts) ==
    TokenTo([AdvanceWhile(advanceByte(ts), HTMLNameBytes) EXCEPT !.expectTagName = FALSE],
            HTMLNameSym(ts), ts.offset)

InTag(ts, endTag) == [ts EXCEPT !.inTag = TRUE, !.inEndTag = endTag, !.expectTagName = TRUE]

OutOfTag(ts) == [ts EXCEPT !.inTag = FALSE, !.inEndTag = FALSE, !.expectTagName = FALSE]

\* HTMLTokenSource.Next: the loop
RECURSIVE HTMLNextLoop(_)
HTMLNextLoop(ts) ==
    IF eof(ts) THEN Lexed([ts EXCEPT !.done = TRUE], eofToken(ts))
    ELSE IF ~ts.inTag
    THEN IF HTMLAtComment(ts) THEN HTMLCommentToken(ts)
         ELSE IF matchLiteralAtCurrent(ts, <<"<", "/">>)
         THEN makeLiteralToken(InTag(ts, TRUE), ts.ltSlashSym, 2)
         ELSE IF matchLiteralAtCurrent(ts, <<"<">>)
         THEN makeLiteralToken(InTag(ts, FALSE), ts.ltSym, 1)
         ELSE HTMLTextToken(ts)
    ELSE IF peekByte(ts) \in {" ", "\t", "\n", "\r", "\f"} THEN HTMLNextLoop(advanceByte(ts))
    ELSE IF matchLiteralAtCurrent(ts, <<"/", ">">>) /\ ts.slashGtSym # 0
    THEN makeLiteralToken(OutOfTag(ts), ts.slashGtSym, 2)
    ELSE IF matchLiteralAtCurrent(ts, <<">">>) THEN makeLiteralToken(OutOfTag(ts), ts.gtSym, 1)
    ELSE IF matchLiteralAtCurrent(ts, <<"=">>) /\ ts.eqSym # 0
    THEN makeLiteralToken(ts, ts.eqSym, 1)
    ELSE IF peekByte(ts) \in {"\"", "'"} THEN quotedAttributeValue(ts)
    ELSE IF isHTMLNameStart(peekByte(ts)) THEN HTMLNameToken(ts)
    ELSE HTMLNextLoop(UnknownByte(ts))

\* HTMLTokenSource.Next
HTMLNext(ts) ==
    IF ts.done THEN Lexed(ts, eofToken(ts))
    ELSE IF eof(ts) THEN Lexed([ts EXCEPT !.done = TRUE], eofToken(ts))
    ELSE HTMLNextLoop(ts)

\* SkipToByte: a rewind clears the in-tag flags
HTMLRewound(ts, target) == IF target < ts.offset THEN OutOfTag(newSourceCursor(ts)) ELSE ts

HTMLSkipTo(ts, target) == AdvanceToOffset(HTMLRewound([ts EXCEPT !.done = FALSE], target), target)

\* HTMLTokenSource.SkipToByte
HTMLSkipToByte(ts, offset) ==
    SkipEnd(HTMLSkipTo(ts, SkipTarget(ts, offset)), HTMLNext(HTMLSkipTo(ts, SkipTarget(ts, offset))))

\* ---- generic (grammars/generic_lexer.go) ----
\* sourceCursor.skipWhitespace
skipWhitespace(ts) == AdvanceWhile(ts, WhitespaceBytes)

isGenericIdentStart(b) == isASCIIAlpha(b) \/ b = "_" \/ b = "$"

isGenericIdentPart(b) == isGenericIdentStart(b) \/ isASCIIDigit(b) \/ b = "-"

GenericIdentBytes == LowerLetters \cup UpperLetters \cup Digits \cup {"_", "$", "-"}

\* isCPrimitiveType, for the type names of the model's sources
isCPrimitiveType(text) == text = <<"i", "n", "t">>

\* a map lookup that yields 0 for a missing key
SymOf(table, key) == IF key \in DOMAIN table THEN table[key] ELSE 0

\* lexemeNeedsBoundary: a literal that ends in a word byte
lexemeNeedsBoundary(lex) == isGenericIdentPart(lex[Len(lex)]) /\ lex[Len(lex)] # "-"

\* hasWordBoundaryAfter(src, pos)
hasWordBoundaryAfter(src, pos) == pos >= Len(src) \/ ~isGenericIdentPart(src[pos + 1])

\* the fields of a GenericTokenSource as buildSymbolTables leaves them
GenericSymbols(src, lang) ==
    [kind |-> "generic", src |-> src, offset |-> 0, done |-> FALSE, pending |-> <<>>,
     eofSymbol |-> 0,
     identifierSym |-> lang.identifierSym, primitiveType |-> lang.primitiveType,
     intSym |-> lang.intSym, floatSym |-> lang.floatSym,
     numberSym |-> firstNonZeroSymbol(<<lang.numberSym, lang.intSym, lang.floatSym>>),
     charSym |-> lang.charSym, stringSym |-> lang.stringSym,
     stringContent |-> lang.stringContent, escapeSym |-> lang.escapeSym,
     doubleQuoteSym |-> lang.doubleQuoteSym, singleQuoteSym |-> lang.singleQuoteSym,
     backtickSym |-> lang.backtickSym, tripleQuoteSym |-> lang.tripleQuoteSym,
     lineCommentSym |-> lang.lineCommentSym, blockCommentSym |-> lang.blockCommentSym,
     commentSym |-> lang.commentSym, shebangSym |-> lang.shebangSym,
     keywordSymbols |-> lang.keywordSymbols, literalSymbols |-> lang.literalSymbols,
     maxLiteralLen |-> lang.maxLiteralLen]

NewGenericTokenSourceOf(ts) == Made(ts, ts.identifierSym = 0 \/ ts.numberSym = 0)

NewGenericTokenSource(src, lang) == NewGenericTokenSourceOf(GenericSymbols(src, lang))

\* a call that may decline: ok tells whether tok is a token of the call
Tried(ts, tok, ok) == [ts |-> ts, tok |-> tok, ok |-> ok]

Declined(ts) == Tried(ts, Token(0, 0, 0), FALSE)

TriedTo(ts, sym, start) == Tried(ts, makeToken(sym, start, ts.offset), TRUE)

\* GenericTokenSource.shebangToken
shebangToken(ts) ==
    IF ts.shebangSym = 0 \/ Len(ts.src) < 2 \/ ts.src[1] # "#" \/ ts.src[2] # "!"
    THEN Declined(ts)
    ELSE TriedTo(AdvanceToByte(ts, "\n"), ts.shebangSym, ts.offset)

\* lineCommentWithPrefix / blockCommentWithPrefix, a the cursor after the comment
CommentEnd(ts, a, sym) ==
    IF sym = 0 THEN Tried(a, Token(0, 0, 0), TRUE) ELSE TriedTo(a, sym, ts.offset)

lineCommentWithPrefix(ts, prefixLen, sym) ==
    CommentEnd(ts, AdvanceToByte(advanceBytes(ts, prefixLen), "\n"), sym)

blockCommentWithPrefix(ts, sym) ==
    CommentEnd(ts, AdvancePast(advanceBytes(ts, 2), <<"*", "/">>), sym)

\* commentToken: '#' at the start of a line of a language with '#' directives
AtDirective(ts) ==
    /\ ts.offset = 0 \/ ts.src[ts.offset] = "\n"
    /\ \/ SymOf(ts.literalSymbols, <<"#">>) # 0
       \/ SymOf(ts.literalSymbols, <<"#", "i", "n", "c", "l", "u", "d", "e">>) # 0
       \/ SymOf(ts.literalSymbols, <<"#", "d", "e", "f", "i", "n", "e">>) # 0

DashSym(ts) ==
    firstNonZeroSymbol(<<ts.lineCommentSym, ts.commentSym, SymOf(ts.literalSymbols, <<"-", "-">>)>>)

\* GenericTokenSource.commentToken
GenericCommentToken(ts) ==
    IF matchLiteralAtCurrent(ts, <<"/", "/">>)
    THEN lineCommentWithPrefix(ts, 2, firstNonZeroSymbol(
             <<ts.lineCommentSym, ts.commentSym, SymOf(ts.literalSymbols, <<"/", "/">>)>>))
    ELSE IF matchLiteralAtCurrent(ts, <<"/", "*">>)
    THEN blockCommentWithPrefix(ts, firstNonZeroSymbol(<<ts.blockCommentSym, ts.commentSym>>))
    ELSE IF matchLiteralAtCurrent(ts, <<"-", "-">>)
            /\ DashSym(ts) # SymOf(ts.literalSymbols, <<"-", "-">>)
    THEN lineCommentWithPrefix(ts, 2, DashSym(ts))
    ELSE IF peekByte(ts) = "#" /\ ts.commentSym # 0
    THEN IF AtDirective(ts) THEN Declined(ts) ELSE lineCommentWithPrefix(ts, 1, ts.commentSym)
    ELSE Declined(ts)

\* GenericTokenSource.scanWholeString, sym != 0
scanWholeString(ts, close, sym) ==
    TriedTo(QuotedBody(advanceByte(ts), close, TRUE), sym, ts.offset)

PendFirst(ts, tok) == [ts EXCEPT !.pending = <<tok>> \o @]

Pend(ts, tok) == [ts EXCEPT !.pending = Append(@, tok)]

\* scanSplitString: the content segment from segStart to the cursor is queued
FlushSegment(ts, segStart, contentSym) ==
    IF contentSym # 0 /\ segStart < ts.offset
    THEN Pend(ts, makeToken(contentSym, segStart, ts.offset))
    ELSE ts

\* scanSplitString: the closing quote is queued
CloseQuote(ts, a, quoteSym) == Pend(a, makeToken(quoteSym, ts.offset, a.offset))

\* scanSplitString: an escape, a the cursor after it
EscapeSeq(ts, a, escapeSym) ==
    IF escapeSym # 0 THEN Pend(a, makeToken(escapeSym, ts.offset, a.offset)) ELSE a

\* scanSplitString: the loop after the opening quote; q holds quote, quoteSym,
\* contentSym and escapeSym
RECURSIVE SplitLoop(_, _, _)
SplitLoop(ts, segStart, q) ==
    IF eof(ts) THEN FlushSegment(ts, segStart, q.contentSym)
    ELSE IF matchLiteralAtCurrent(ts, q.quote)
    THEN CloseQuote(FlushSegment(ts, segStart, q.contentSym),
                    advanceBytes(FlushSegment(ts, segStart, q.contentSym), Len(q.quote)),
                    q.quoteSym)
    ELSE IF peekByte(ts) = "\\"
    THEN SplitLoop(EscapeSeq(ts, advanceRune(advanceByte(FlushSegment(ts, segStart, q.contentSym))),
                             q.escapeSym),
                   advanceRune(advanceByte(ts)).offset, q)
    ELSE SplitLoop(advanceRune(ts), segStart, q)

SplitOpened(ts, a, q) ==
    Tried(SplitLoop(a, a.offset, q), makeToken(q.quoteSym, ts.offset, a.offset), TRUE)

\* GenericTokenSource.scanSplitString
scanSplitString(ts, quote, quoteSym, contentSym, escapeSym) ==
    IF ~matchLiteralAtCurrent(ts, quote) THEN Declined(ts)
    ELSE SplitOpened(ts, advanceBytes(ts, Len(quote)),
                     [quote |-> quote, quoteSym |-> quoteSym, contentSym |-> contentSym,
                      escapeSym |-> escapeSym])

StringContentSym(ts) == firstNonZeroSymbol(<<ts.stringContent, ts.stringSym>>)

\* GenericTokenSource.stringToken
stringToken(ts) ==
    IF ts.tripleQuoteSym # 0 /\ matchLiteralAtCurrent(ts, <<"\"", "\"", "\"">>)
    THEN scanSplitString(ts, <<"\"", "\"", "\"">>, ts.tripleQuoteSym, ts.stringContent, ts.escapeSym)
    ELSE IF ts.doubleQuoteSym # 0 /\ peekByte(ts) = "\""
    THEN IF ts.stringSym # 0 /\ ts.stringContent = 0 THEN scanWholeString(ts, "\"", ts.stringSym)
         ELSE scanSplitString(ts, <<"\"">>, ts.doubleQuoteSym, StringContentSym(ts), ts.escapeSym)
    ELSE IF ts.backtickSym # 0 /\ peekByte(ts) = BackQuote
    THEN IF ts.stringSym # 0 /\ ts.stringContent = 0 THEN scanWholeString(ts, BackQuote, ts.stringSym)
         ELSE scanSplitString(ts, <<BackQuote>>, ts.backtickSym, StringContentSym(ts), 0)
    ELSE Declined(ts)

\* GenericTokenSource.charToken
charToken(ts) ==
    IF peekByte(ts) # "'" THEN Declined(ts)
    ELSE IF ts.charSym # 0 THEN scanWholeString(ts, "'", ts.charSym)
    ELSE IF ts.singleQuoteSym = 0 THEN Declined(ts)
    ELSE scanSplitString(ts, <<"'">>, ts.singleQuoteSym, StringContentSym(ts), ts.escapeSym)

IdentSym(ts, text) ==
    IF text \in DOMAIN ts.keywordSymbols THEN ts.keywordSymbols[text]
    ELSE IF ts.primitiveType # 0 /\ isCPrimitiveType(text) THEN ts.primitiveType
    ELSE ts.identifierSym

IdentEnd(ts, a, sym) == IF sym = 0 THEN Declined(a) ELSE TriedTo(a, sym, ts.offset)

IdentScanned(ts, a) == IdentEnd(ts, a, IdentSym(ts, SubSeq(ts.src, ts.offset + 1, a.offset)))

\* GenericTokenSource.identifierOrKeywordToken
identifierOrKeywordToken(ts) == IdentScanned(ts, AdvanceWhile(advanceByte(ts), GenericIdentBytes))

\* numberToken: the digits, hexadecimal after 0x / 0X
GenericDigits(ts) ==
    IF matchLiteralAtCurrent(ts, <<"0", "x">>) \/ matchLiteralAtCurrent(ts, <<"0", "X">>)
    THEN AdvanceWhile(advanceByte(advanceByte(ts)),
                      Digits \cup {"a", "b", "c", "d", "e", "f", "A", "B", "C", "D", "E", "F", "_"})
    ELSE AdvanceWhile(ts, Digits \cup {"_"})

\* numberToken: a '.' that is not the first of two dots starts a fraction
GenericFraction(ts) ==
    IF matchLiteralAtCurrent(ts, <<".", ".">>) THEN [ts |-> ts, float |-> FALSE]
    ELSE NumFraction(ts)

GenericNumberEnd(ts, r) ==
    TokenTo(r.ts,
            IF r.float THEN firstNonZeroSymbol(<<ts.floatSym, ts.numberSym, ts.intSym>>)
            ELSE firstNonZeroSymbol(<<ts.intSym, ts.numberSym, ts.floatSym>>),
            ts.offset)

\* GenericTokenSource.numberToken
GenericNumberToken(ts) ==
    GenericNumberEnd(ts, NumExponent(GenericFraction(GenericDigits(ts)), {"e", "E", "p", "P"}))

\* matchLiteral: the longest literal of at most n bytes at the cursor, <<0, 0>>
\* when there is none
RECURSIVE matchLiteralFrom(_, _)
matchLiteralFrom(ts, n) ==
    IF n < 1 THEN <<0, 0>>
    ELSE IF /\ SubSeq(ts.src, ts.offset + 1, ts.offset + n) \in DOMAIN ts.literalSymbols
            /\ \/ ~lexemeNeedsBoundary(SubSeq(ts.src, ts.offset + 1, ts.offset + n))
               \/ hasWordBoundaryAfter(ts.src, ts.offset + n)
    THEN <<ts.literalSymbols[SubSeq(ts.src, ts.offset + 1, ts.offset + n)], n>>
    ELSE matchLiteralFrom(ts, n - 1)

matchLiteral(ts) == matchLiteralFrom(ts, Min(ts.maxLiteralLen, Len(ts.src) - ts.offset))

\* GenericTokenSource.literalToken
GenericLiteralToken(ts) ==
    IF matchLiteral(ts)[1] = 0 THEN Declined(ts)
    ELSE TriedTo(advanceBytes(ts, matchLiteral(ts)[2]), matchLiteral(ts)[1], ts.offset)

\* GenericTokenSource.Next: the loop; each step hands the attempt of one
\* scanner to the next
RECURSIVE GenericNextLoop(_)
AfterLiteral(ts, r) ==
    IF r.ok THEN Lexed(r.ts, r.tok) ELSE GenericNextLoop(UnknownByte(ts))

AfterIdent(r) == IF r.ok THEN Lexed(r.ts, r.tok) ELSE GenericNextLoop(r.ts)

AfterChar(ts, r) ==
    IF r.ok THEN Lexed(r.ts, r.tok)
    ELSE IF isGenericIdentStart(peekByte(ts)) THEN AfterIdent(identifierOrKeywordToken(ts))
    ELSE IF isASCIIDigit(peekByte(ts)) THEN GenericNumberToken(ts)
    ELSE AfterLiteral(ts, GenericLiteralToken(ts))

AfterString(ts, r) == IF r.ok THEN Lexed(r.ts, r.tok) ELSE AfterChar(ts, charToken(ts))

AfterComment(ts, r) ==
    IF r.ok THEN (IF r.tok.Symbol = 0 THEN GenericNextLoop(r.ts) ELSE Lexed(r.ts, r.tok))
    ELSE AfterString(ts, stringToken(ts))

AfterWhitespace(ts) ==
    IF eof(ts) THEN Lexed([ts EXCEPT !.done = TRUE], eofToken(ts))
    ELSE AfterComment(ts, GenericCommentToken(ts))

AfterShebang(ts, r) == IF r.ok THEN Lexed(r.ts, r.tok) ELSE AfterWhitespace(skipWhitespace(ts))

GenericNextLoop(ts) ==
    IF ts.offset = 0 THEN AfterShebang(ts, shebangToken(ts))
    ELSE AfterWhitespace(skipWhitespace(ts))

\* GenericTokenSource.Next
GenericNext(ts) ==
    IF Len(ts.pending) > 0 THEN Lexed([ts EXCEPT !.pending = Tail(@)], Head(ts.pending))
    ELSE IF ts.done THEN Lexed(ts, eofToken(ts))
    ELSE GenericNextLoop(ts)

GenericSkipTo(ts, target) ==
    SkipCursor([ts EXCEPT !.pending = <<>>, !.done = FALSE], target)

\* GenericTokenSource.SkipToByte
GenericSkipToByte(ts, offset) ==
    SkipEnd(GenericSkipTo(ts, SkipTarget(ts, offset)),
            GenericNext(GenericSkipTo(ts, SkipTarget(ts, offset))))

\* ---- the token sources in use ----
\* the longest enumerated source text
MaxLexLen == 2

TomlLanguage ==
    <<"end", "document_token1", "comment", "bare_key", "boolean", "integer_token1",
      "float_token1", "_line_ending_or_eof", "=", ".", ",", "[", "]", "[[", "]]", "{", "}",
      "_basic_string_token1", "_literal_string_token1">>

Without(lang, names) == SelectSeq(lang, LAMBDA n : n \notin names)

\* the language of the constructor tests: only "end"
BareLanguage == <<"end">>

TomlLangs ==
    { TomlLanguage, BareLanguage,
      Without(TomlLanguage, {"bare_key"}),
      Without(TomlLanguage, {"integer_token1", "float_token1"}),
      <<"end", "bare_key", "float_token1">> }

HtmlLanguage ==
    <<"end", "<", "</", ">", "/>", "=", "tag_name", "tag_name", "attribute_name",
      "attribute_value", "text", "comment">>

HtmlLangs ==
    { HtmlLanguage, BareLanguage,
      Without(HtmlLanguage, {"text"}),
      Without(HtmlLanguage, {"tag_name"}),
      Without(HtmlLanguage, {"</"}),
      <<"end", "<", "</", ">", "tag_name", "text">> }

NoGenericSymbols ==
    [identifierSym |-> 0, primitiveType |-> 0, intSym |-> 0, floatSym |-> 0, numberSym |-> 0,
     charSym |-> 0, stringSym |-> 0, stringContent |-> 0, escapeSym |-> 0,
     doubleQuoteSym |-> 0, singleQuoteSym |-> 0, backtickSym |-> 0, tripleQuoteSym |-> 0,
     lineCommentSym |-> 0, blockCommentSym |-> 0, commentSym |-> 0, shebangSym |-> 0,
     keywordSymbols |-> <<>>, literalSymbols |-> <<>>, maxLiteralLen |-> 0]

\* a C-like language: whole strings and characters, comments, keywords
GenericCLike ==
    [NoGenericSymbols EXCEPT
        !.identifierSym = 1, !.primitiveType = 2, !.numberSym = 3, !.floatSym = 4,
        !.charSym = 5, !.stringSym = 6, !.doubleQuoteSym = 7, !.commentSym = 8,
        !.shebangSym = 9,
        !.keywordSymbols = (<<"i", "f">> :> 10),
        !.literalSymbols = (<<"=">> :> 11) @@ (<<"=", "=">> :> 12) @@ (<<"\"">> :> 7)
                           @@ (<<"-", "-">> :> 13) @@ (<<"#">> :> 14),
        !.maxLiteralLen = 2]

\* a language whose strings are split into quotes, content and escapes
GenericSplit ==
    [NoGenericSymbols EXCEPT
        !.identifierSym = 1, !.intSym = 3, !.stringContent = 6, !.escapeSym = 5,
        !.doubleQuoteSym = 7, !.singleQuoteSym = 8, !.backtickSym = 9, !.tripleQuoteSym = 10,
        !.lineCommentSym = 11, !.blockCommentSym = 12,
        !.literalSymbols = (<<"\"">> :> 7) @@ (<<"'">> :> 8) @@ (<<"+">> :> 13),
        !.maxLiteralLen = 1]

GenericLangs ==
    { GenericCLike, GenericSplit, NoGenericSymbols,
      [GenericSplit EXCEPT !.stringContent = 0, !.escapeSym = 0, !.lineCommentSym = 0,
                           !.blockCommentSym = 0] }

Str5(a, b, c, d, e) == <<a, b, c, d, e>>

TomlSamples ==
    { <<"a", " ", "=", " ", "1", "\n", "b", " ", "=", " ", "2", "\n">>,
      <<"[", "[", "t", "]", "]", "\n">>,
      <<"k", "=", "\"", "s", "\\", "\"", "\"", ",", "'", "l", "'">>,
      <<"x", "=", "-", "1", ".", "5", "e", "+", "3", "#", "c">>,
      <<"0", "x", "1", "F", " ", "t", "r", "u", "e", "{", "}">>,
      <<"C3", "A9", "a", "\n">>,
      <<"k", "=", "\"", "s", "\n">> }

TomlBytes == {"a", " ", "\n", "=", "@"}

HtmlSamples ==
    { Str5("<", "a", ">", "T", "<") \o <<"/", "a", ">", "\n">>,
      Str5("<", "b", " ", "c", "=") \o <<"'", "v", "'", "/", ">">>,
      Str5("<", "!", "-", "-", "x") \o <<"-", "-", ">", "t">>,
      Str5("<", "a", " ", "/", "b") \o <<">">>,
      <<"C3", "A9", "<", "C3", "A9", ">">> }

HtmlBytes == {"a", "<", ">", " ", "/"}

GenericSamples ==
    { Str5("#", "!", "s", "\n", "i") \o <<"f", " ", "x", "=", "=", "1">>,
      Str5("\"", "s", "\\", "n", "t") \o <<"\"", " ", "'", "c", "'">>,
      Str5("/", "/", "c", "\n", "/") \o <<"*", "b", "*", "/", "i", "n", "t">>,
      Str5("0", "x", "F", ".", "5") \o <<"p", "-", "1", " ", "1", ".", ".">>,
      Str5("a", " ", "-", "-", "c") \o <<"\n", "#", "d", BackQuote, "r", BackQuote>>,
      <<"\"", "\"", "\"", "s", "\"", "\"", "\"", "C3", "A9">> }

GenericBytes == {"a", "1", " ", "\"", "@"}

LexKinds == {"toml", "html", "generic"}

SourcesOf(kind) ==
    CASE kind = "toml" -> SeqsUpTo(TomlBytes, MaxLexLen) \cup TomlSamples
      [] kind = "html" -> SeqsUpTo(HtmlBytes, MaxLexLen) \cup HtmlSamples
      [] kind = "generic" -> SeqsUpTo(GenericBytes, MaxLexLen) \cup GenericSamples

LangsOf(kind) ==
    CASE kind = "toml" -> TomlLangs
      [] kind = "html" -> HtmlLangs
      [] kind = "generic" -> GenericLangs

\* New<kind>TokenSource(src, lang)
NewSourceOf(kind, src, lang) ==
    CASE kind = "toml" -> NewTomlTokenSource(src, lang)
      [] kind = "html" -> NewHTMLTokenSource(src, lang)
      [] kind = "generic" -> NewGenericTokenSource(src, lang)

\* TokenSource.Next by dynamic dispatch
NextOf(ts) ==
    CASE ts.kind = "toml" -> TomlNext(ts)
      [] ts.kind = "html" -> HTMLNext(ts)
      [] ts.kind = "generic" -> GenericNext(ts)
      [] ts.kind = "eof" -> InitErrorNext(ts)

\* ByteSkippableTokenSource.SkipToByte by dynamic dispatch
SkipToByteOf(ts, offset) ==
    CASE ts.kind = "toml" -> TomlSkipToByte(ts, offset)
      [] ts.kind = "html" -> HTMLSkipToByte(ts, offset)
      [] ts.kind = "generic" -> GenericSkipToByte(ts, offset)

NoLexHist ==
    [ctor |-> "none", kind |-> "none", lang |-> <<>>, err |-> FALSE, op |-> "none",
     offset |-> 0, pure |-> TRUE, prevEnd |-> 0, ordered |-> TRUE, dropped |-> FALSE,
     ended |-> FALSE, toks |-> <<>>, sawEOF |-> FALSE, sticky |-> TRUE, inOrder |-> TRUE]

LexIdle ==
    /\ lexTs = NoTokenSource
    /\ lexTok = Token(0, 0, 0)
    /\ lexHist = NoLexHist

LexInit == LexIdle

\* ts, err := New<kind>TokenSource(src, lang)
NewTokenSourceCall(kind, src, lang) ==
    /\ lexHist.ctor = "none"
    /\ \E r \in {NewSourceOf(kind, src, lang)} :
        /\ lexTs' = r.ts
        /\ lexHist' = [lexHist EXCEPT !.ctor = "plain", !.kind = kind, !.lang = lang,
                                      !.err = r.err]
    /\ UNCHANGED <<lexTok, lexOthers>>

\* ts := New<kind>TokenSourceOrEOF(src, lang)
NewTokenSourceOrEOFCall(kind, src, lang) ==
    /\ lexHist.ctor = "none"
    /\ \E r \in {NewSourceOf(kind, src, lang)} :
        /\ lexTs' = OrEOF(r, src)
        /\ lexHist' = [lexHist EXCEPT !.ctor = "orEOF", !.kind = kind, !.lang = lang,
                                      !.err = r.err]
    /\ UNCHANGED <<lexTok, lexOthers>>

\* some byte of src[from .. to-1] is not whitespace
DropsByte(src, from, to) == \E i \in (from + 1)..to : src[i] \notin WhitespaceBytes

\* the token is the one eofToken() makes for the source
ReturnsEOF(r) == r.ts.kind # "eof" /\ r.tok = eofToken(r.ts)

\* the history after a Next that returned r: toks are the tokens returned
\* before the first EOF by a source that was never skipped, sawEOF and sticky
\* follow the Next calls since the last SkipToByte
AfterNext(h, r) ==
    [h EXCEPT !.op = "next",
              !.ordered = @ /\ (h.pure => r.tok.StartByte >= h.prevEnd
                                          /\ r.tok.EndByte >= r.tok.StartByte),
              !.dropped = @ \/ (h.pure /\ DropsByte(r.ts.src, h.prevEnd, r.tok.StartByte)),
              !.prevEnd = r.tok.EndByte,
              !.ended = r.ts.kind # "eof" /\ r.ts.done,
              !.toks = IF h.pure /\ ~h.sawEOF /\ ~ReturnsEOF(r) /\ r.ts.kind # "eof"
                       THEN Append(@, r.tok) ELSE @,
              !.sawEOF = @ \/ ReturnsEOF(r),
              !.sticky = @ /\ (h.sawEOF => ReturnsEOF(r)),
              !.inOrder = @ /\ r.tok.StartByte >= h.prevEnd
                            /\ r.tok.StartByte <= r.tok.EndByte
                            /\ r.tok.EndByte <= Len(r.ts.src)]

\* tok := ts.Next()
LexNext ==
    /\ lexTs # NoTokenSource
    /\ \E r \in {NextOf(lexTs)} :
        /\ lexTs' = r.ts
        /\ lexTok' = r.tok
        /\ lexHist' = AfterNext(lexHist, r)
    /\ UNCHANGED lexOthers

\* tok := ts.SkipToByte(offset)
LexSkipToByte(offset) ==
    /\ lexTs # NoTokenSource
    /\ lexTs.kind # "eof"
    /\ offset <= Len(lexTs.src) + 1
    /\ \E r \in {SkipToByteOf(lexTs, offset)} :
        /\ lexTs' = r.ts
        /\ lexTok' = r.tok
        /\ lexHist' = [lexHist EXCEPT !.op = "skip", !.offset = offset, !.pure = FALSE,
                                      !.prevEnd = 0, !.ended = FALSE, !.toks = <<>>,
                                      !.sawEOF = FALSE]
    /\ UNCHANGED lexOthers

\* the offsets handed to SkipToByte: inside the longest source, and past its end
SkipOffsets == 0..13

LexNextStep ==
    \/ \E kind \in LexKinds : \E src \in SourcesOf(kind) : \E lang \in LangsOf(kind) :
          NewTokenSourceCall(kind, src, lang)
    \/ \E kind \in LexKinds : \E src \in SourcesOf(kind) : \E lang \in LangsOf(kind) :
          NewTokenSourceOrEOFCall(kind, src, lang)
    \/ LexNext
    \/ \E offset \in SkipOffsets : LexSkipToByte(offset)

(***************************************************************************)
(* Lexer-table extraction (unnamed/part_001): the character sets of the    *)
(* generated parser source and the set_contains conditions that use them.  *)
(* The text of a set is taken as parsed into its entries {lo, hi}; each    *)
(* literal either parses to an integer or does not parse.                  *)
(***************************************************************************)
\* utf8.MaxRune, scaled down
maxLookaheadRune == 2

\* the most entries of a declared set
MaxEntries == 2

LexRange(lo, hi) == [lo |-> lo, hi |-> hi]

\* parseCLookaheadLiteral: the value and whether the literal parsed
Literal(v) == [v |-> v, ok |-> TRUE]

BadLiteral == [v |-> 0, ok |-> FALSE]

Literals == {Literal(v) : v \in (0 - 1)..(maxLookaheadRune + 1)} \cup {BadLiteral}

Entries == [lo : Literals, hi : Literals]

DeclaredSets == SeqsUpTo(Entries, MaxEntries)

\* the merge that forgets the longer range
MergedHiLast(curHi, rHi) == rHi

\* normalizeRanges: if r.hi > cur.hi { cur.hi = r.hi }
MergedHi(curHi, rHi) == IF rHi > curHi THEN rHi ELSE curHi

\* normalizeRanges, first loop: drop what is empty or outside, clamp the rest
RECURSIVE ClampAll(_)
ClampAll(in) ==
    IF in = <<>> THEN <<>>
    ELSE IF in[1].hi < in[1].lo THEN ClampAll(Tail(in))
    ELSE IF in[1].hi < 0 \/ in[1].lo > maxLookaheadRune THEN ClampAll(Tail(in))
    ELSE <<LexRange(IF in[1].lo < 0 THEN 0 ELSE in[1].lo,
                    IF in[1].hi > maxLookaheadRune THEN maxLookaheadRune ELSE in[1].hi)>>
         \o ClampAll(Tail(in))

\* the less function of the sort
RangeLess(a, b) == IF a.lo # b.lo THEN a.lo < b.lo ELSE a.hi < b.hi

\* sort.Slice(ranges, less)
RECURSIVE SortRanges(_)
SortRanges(ranges) ==
    IF ranges = <<>> THEN <<>>
    ELSE LET first == CHOOSE i \in 1..Len(ranges) :
                         \A k \in 1..Len(ranges) : ~RangeLess(ranges[k], ranges[i])
         IN <<ranges[first]>>
            \o SortRanges(SubSeq(ranges, 1, first - 1) \o SubSeq(ranges, first + 1, Len(ranges)))

\* normalizeRanges, second loop: merge what overlaps or touches
RECURSIVE MergeRanges(_, _)
MergeRanges(cur, rest) ==
    IF rest = <<>> THEN <<cur>>
    ELSE IF rest[1].lo <= cur.hi + 1
    THEN MergeRanges([cur EXCEPT !.hi = MergedHi(cur.hi, rest[1].hi)], Tail(rest))
    ELSE <<cur>> \o MergeRanges(rest[1], Tail(rest))

MergeSorted(ranges) == MergeRanges(ranges[1], Tail(ranges))

Normalized(ranges) == IF ranges = <<>> THEN <<>> ELSE MergeSorted(SortRanges(ranges))

\* normalizeRanges; nil is the empty sequence
normalizeRanges(in) == Normalized(ClampAll(in))

\* extractCharacterSets, one entry: the range it adds, if any
EntryOrdered(lo, hi) ==
    IF hi < 0 \/ lo > maxLookaheadRune THEN <<>>
    ELSE <<LexRange(IF lo < 0 THEN 0 ELSE lo,
                    IF hi > maxLookaheadRune THEN maxLookaheadRune ELSE hi)>>

EntryRange(e) ==
    IF ~e.lo.ok \/ ~e.hi.ok THEN <<>>
    ELSE IF e.lo.v > e.hi.v THEN EntryOrdered(e.hi.v, e.lo.v)
    ELSE EntryOrdered(e.lo.v, e.hi.v)

RECURSIVE EntryRanges(_)
EntryRanges(entries) ==
    IF entries = <<>> THEN <<>> ELSE EntryRange(entries[1]) \o EntryRanges(Tail(entries))

\* the name of the declared set, and a name that no set has
SetNames == {"S", "T"}

\* extractCharacterSets on a source that declares the set S with the entries:
\* the map from set names to ranges
extractCharacterSets(entries) ==
    IF entries = <<>> THEN <<>> ELSE [name \in {"S"} |-> normalizeRanges(EntryRanges(entries))]

NoCondition == [nonEOF |-> <<>>, eof |-> FALSE]

\* condParser.parseSetContains on set_contains(name, n, lookahead)
parseSetContains(charSets, name) ==
    LET ranges == IF name \in DOMAIN charSets THEN charSets[name] ELSE <<>>
    IN IF Len(ranges) = 0 THEN [err |-> TRUE, condition |-> NoCondition]
       ELSE [err |-> FALSE, condition |-> [nonEOF |-> ranges, eof |-> FALSE]]

LexTransition(r, next, skip) == [Lo |-> r.lo, Hi |-> r.hi, Next |-> next, Skip |-> skip]

\* addTransition
addTransition(st, cond, next, skip) ==
    [st EXCEPT !.EOF = IF cond.eof /\ @ < 0 THEN next ELSE @,
               !.Transitions = @ \o [i \in 1..Len(cond.nonEOF) |->
                                        LexTransition(cond.nonEOF[i], next, skip)]]

\* parseLexCaseBlock: st := LexState{EOF: -1}
NewLexState == [Transitions |-> <<>>, EOF |-> 0 - 1]

NoCsHist == [name |-> "", err |-> FALSE, next |-> 0]

CsIdle ==
    /\ csPc = "idle"
    /\ csEntries = <<>>
    /\ csSets = <<>>
    /\ csState = NewLexState
    /\ csHist = NoCsHist

\* the generated parser source: one declared character set
CsInit ==
    /\ csPc = "source"
    /\ csEntries \in DeclaredSets
    /\ csSets = <<>>
    /\ csState = NewLexState
    /\ csHist = NoCsHist

\* charSets, _ := extractCharacterSets(source)
ExtractCharacterSets ==
    /\ csPc = "source"
    /\ csSets' = extractCharacterSets(csEntries)
    /\ csPc' = "extracted"
    /\ UNCHANGED <<csEntries, csState, csHist, csOthers>>

\* parseConditionalTransition on `if (set_contains(name, n, lookahead)) ADVANCE(next)` or SKIP(next)
ParseConditionalTransition(name, next, skip) ==
    /\ csPc = "extracted"
    /\ \E r \in {parseSetContains(csSets, name)} :
          /\ csState' = IF r.err THEN csState ELSE addTransition(csState, r.condition, next, skip)
          /\ csHist' = [name |-> name, err |-> r.err, next |-> next]
    /\ csPc' = "parsed"
    /\ UNCHANGED <<csEntries, csSets, csOthers>>

CsNext ==
    \/ ExtractCharacterSets
    \/ \E name \in SetNames, next \in {1, 2}, skip \in BOOLEAN :
          ParseConditionalTransition(name, next, skip)

(***************************************************************************)
(* Stack entry scratch (glr.go): glrEntryScratch.alloc, clone and grow,    *)
(* and the stack operations that use it.  The entries of a stack are a     *)
(* slice of a slab: the slab, the offset of the first cell, the length and *)
(* the capacity.                                                           *)
(***************************************************************************)
\* the default capacity of an entry slab, scaled down from 4 * 1024
defaultStackEntrySlabCap == 2

\* stacks allocated from one scratch
MaxEntryStacks == 3

\* calls on one scratch
MaxEntryOps == 6

NoEntry == StackEntry(0, 0)

EntrySlab(capacity) == [data |-> [i \in 1..capacity |-> NoEntry], used |-> 0]

\* a slice data[start : start+len : start+cap] of slab number slab
EntrySlice(slab, start, len, cap) == [slab |-> slab, start |-> start, len |-> len, cap |-> cap]

\* the slice that keeps the rest of the slab as its capacity
AllocCapToEnd(slabLen, start, n) == slabLen - start

\* alloc: last.data[start:last.used:last.used], the capacity ends with the slice
AllocCap(slabLen, start, n) == n

\* alloc: the capacity of the first slab
FirstSlabCap(n) == Max(defaultStackEntrySlabCap, n)

\* alloc: the capacity of a slab added when the last one is full
NextSlabCap(lastLen, n) == Max(Max(lastLen * 2, defaultStackEntrySlabCap), n)

\* alloc: the slabs once the last one has room for n entries
WithRoom(slabs, n) ==
    LET some == IF slabs = <<>> THEN <<EntrySlab(FirstSlabCap(n))>> ELSE slabs
        last == some[Len(some)]
    IN IF Len(last.data) - last.used < n
       THEN Append(some, EntrySlab(NextSlabCap(Len(last.data), n)))
       ELSE some

\* alloc, the slice taken from the last slab
AllocFrom(slabs, n) ==
    [slabs |-> [slabs EXCEPT ![Len(slabs)].used = @ + n],
     out |-> EntrySlice(Len(slabs), slabs[Len(slabs)].used, n,
                        AllocCap(Len(slabs[Len(slabs)].data), slabs[Len(slabs)].used, n))]

NilEntries == EntrySlice(0, 0, 0, 0)

\* glrEntryScratch.alloc
scratchAlloc(slabs, n) ==
    IF n <= 0 THEN [slabs |-> slabs, out |-> NilEntries] ELSE AllocFrom(WithRoom(slabs, n), n)

\* the entries a slice holds
EntriesOf(slabs, sl) == [i \in 1..sl.len |-> slabs[sl.slab].data[sl.start + i]]

\* copy(out, entries)
CopyInto(slabs, out, entries) ==
    [slabs EXCEPT ![out.slab].data =
        [i \in 1..Len(@) |->
            IF i > out.start /\ i <= out.start + Min(out.len, Len(entries))
            THEN entries[i - out.start] ELSE @[i]]]

Copied(a, entries, len) ==
    [slabs |-> CopyInto(a.slabs, a.out, entries), out |-> [a.out EXCEPT !.len = len]]

\* glrEntryScratch.clone
scratchClone(slabs, sl) ==
    IF sl.len = 0 THEN [slabs |-> slabs, out |-> NilEntries]
    ELSE Copied(scratchAlloc(slabs, sl.len), EntriesOf(slabs, sl), sl.len)

\* glrEntryScratch.grow
scratchGrow(slabs, sl, minCap) ==
    Copied(scratchAlloc(slabs, Max(Max(sl.cap * 2, 1), minCap)), EntriesOf(slabs, sl), sl.len)

ScratchStack(entries, score, dead, accepted) ==
    [entries |-> entries, score |-> score, dead |-> dead, accepted |-> accepted]

\* newGLRStackWithScratch
StartedStack(a, initial) ==
    [slabs |-> CopyInto(a.slabs, a.out, <<StackEntry(initial, 0)>>),
     stack |-> ScratchStack(a.out, 0, FALSE, FALSE)]

newGLRStackWithScratch(slabs, initial) == StartedStack(scratchAlloc(slabs, 1), initial)

\* glrStack.cloneWithScratch
ClonedStack(a, s) == [slabs |-> a.slabs, stack |-> ScratchStack(a.out, s.score, FALSE, FALSE)]

cloneWithScratch(slabs, s) == ClonedStack(scratchClone(slabs, s.entries), s)

\* push: s.entries = s.entries[:idx+1]; s.entries[idx] = stackEntry{state, node}
PushAt(a, s, entry) ==
    [slabs |-> [a.slabs EXCEPT ![a.out.slab].data[a.out.start + a.out.len + 1] = entry],
     stack |-> [s EXCEPT !.entries = [a.out EXCEPT !.len = @ + 1]]]

\* glrStack.push with a scratch
pushWithScratch(slabs, s, entry) ==
    IF s.entries.len = s.entries.cap
    THEN PushAt(scratchGrow(slabs, s.entries, s.entries.len + 1), s, entry)
    ELSE PushAt([slabs |-> slabs, out |-> s.entries], s, entry)

NoEsHist == [expect |-> <<>>, ops |-> 0, op |-> "none", k |-> 0, from |-> 0, grew |-> FALSE]

EsIdle ==
    /\ esSlabs = <<>>
    /\ esStacks = <<>>
    /\ esHist = NoEsHist

EsInit == EsIdle

\* s := newGLRStackWithScratch(initial, &scratch)
EsNewStack(initial) ==
    /\ esHist.ops < MaxEntryOps
    /\ Len(esStacks) < MaxEntryStacks
    /\ \E r \in {newGLRStackWithScratch(esSlabs, initial)} :
          /\ esSlabs' = r.slabs
          /\ esStacks' = Append(esStacks, r.stack)
          /\ esHist' = [expect |-> Append(esHist.expect, <<StackEntry(initial, 0)>>),
                        ops |-> esHist.ops + 1, op |-> "new", k |-> Len(esStacks) + 1,
                        from |-> 0, grew |-> FALSE]
    /\ UNCHANGED esOthers

\* fork := stacks[k].cloneWithScratch(&scratch)
EsClone(k) ==
    /\ esHist.ops < MaxEntryOps
    /\ Len(esStacks) < MaxEntryStacks
    /\ k \in 1..Len(esStacks)
    /\ \E r \in {cloneWithScratch(esSlabs, esStacks[k])} :
          /\ esSlabs' = r.slabs
          /\ esStacks' = Append(esStacks, r.stack)
          /\ esHist' = [expect |-> Append(esHist.expect, esHist.expect[k]),
                        ops |-> esHist.ops + 1, op |-> "clone", k |-> Len(esStacks) + 1,
                        from |-> k, grew |-> FALSE]
    /\ UNCHANGED esOthers

\* stacks[k].push(state, node, &scratch); the node names the call
EsPush(k, state) ==
    /\ esHist.ops < MaxEntryOps
    /\ k \in 1..Len(esStacks)
    /\ \E r \in {pushWithScratch(esSlabs, esStacks[k], StackEntry(state, esHist.ops + 1))} :
          /\ esSlabs' = r.slabs
          /\ esStacks' = [esStacks EXCEPT ![k] = r.stack]
          /\ esHist' = [expect |-> [esHist.expect EXCEPT
                                       ![k] = Append(@, StackEntry(state, esHist.ops + 1))],
                        ops |-> esHist.ops + 1, op |-> "push", k |-> k, from |-> 0,
                        grew |-> esStacks[k].entries.len = esStacks[k].entries.cap]
    /\ UNCHANGED esOthers

EsNext ==
    \/ \E initial \in {1} : EsNewStack(initial)
    \/ \E k \in 1..MaxEntryStacks : EsClone(k)
    \/ \E k \in 1..MaxEntryStacks, state \in {2, 3} : EsPush(k, state)

(***************************************************************************)
(* Reuse cursor and grafting, call by call (incremental.go): a tree is     *)
(* parsed and edited, a reparse opens a cursor on it, and the cursor is    *)
(* then queried by candidates and by tryReuseSubtree one call at a time.   *)
(***************************************************************************)
\* calls on one cursor
MaxRuCalls == 2

\* the sources of the old trees; the last one does not parse
RuSources == {<<"a", ";">>, <<"a", ";", "a", ";">>, <<"a", "a">>}

\* the states on top of the stack a graft is tried on
RuStates == {1, 4, 8, 9}

\* the texts an edit puts in
RuTexts == {<<>>, <<"a">>}

NoQuery == 0 - 1

NoRuHist ==
    [calls |-> 0, op |-> "none", q |-> NoQuery, list |-> <<>>, fresh |-> FALSE,
     maxQ |-> NoQuery, lastQ |-> NoQuery, lastList |-> <<>>,
     given |-> Token(0, 0, 0), ok |-> FALSE, state |-> 0]

RuIdle ==
    /\ ruPc = "idle"
    /\ ruTree = NoTree
    /\ ruText = <<>>
    /\ ruCur = NilCursor
    /\ ruStack = newGLRStack(StartState)
    /\ ruTs = NewTokenSource(<<>>, FALSE)
    /\ ruTok = Token(0, 0, 0)
    /\ ruHist = NoRuHist

RuInit ==
    /\ ruPc = "start"
    /\ ruTree = NoTree
    /\ ruText = <<>>
    /\ ruCur = NilCursor
    /\ ruStack = newGLRStack(StartState)
    /\ ruTs = NewTokenSource(<<>>, FALSE)
    /\ ruTok = Token(0, 0, 0)
    /\ ruHist = NoRuHist

\* tree = parser.Parse(source)
RuParse(source) ==
    /\ ruPc = "start"
    /\ ruTree' = Parse(source, 1)
    /\ ruText' = source
    /\ ruPc' = "parsed"
    /\ ruHist' = [ruHist EXCEPT !.op = "parse"]
    /\ UNCHANGED <<ruCur, ruStack, ruTs, ruTok, ruOthers>>

\* the text is edited and the edit is reported: tree.Edit(edit)
RuEdit(startByte, oldEndByte, text) ==
    /\ ruPc = "parsed"
    /\ startByte <= oldEndByte /\ oldEndByte <= Len(ruText)
    /\ startByte < oldEndByte \/ text # <<>>
    /\ Len(ruText) - (oldEndByte - startByte) + Len(text) <= MaxSourceLen
    /\ ruText' = Splice(ruText, startByte, oldEndByte, text)
    /\ ruTree' = TreeEdit(ruTree, InputEdit(startByte, oldEndByte, startByte + Len(text)), TRUE)
    /\ ruPc' = "edited"
    /\ ruHist' = [ruHist EXCEPT !.op = "edit"]
    /\ UNCHANGED <<ruCur, ruStack, ruTs, ruTok, ruOthers>>

\* the sources a reparse is given: the edited text, or that text without its
\* first byte, a change no edit was reported for
ReparseSources(text) == {text, SubSeq(text, 2, Len(text))}

\* the reparse starts: idx.reset(oldTree, source, scratch), the first token is
\* read, the stack is in the state the parse has reached
RuOpenWith(first, source, state) ==
    /\ ruCur' = reset(ruTree, source)
    /\ ruStack' = newGLRStack(state)
    /\ ruTs' = first.ts
    /\ ruTok' = first.tok
    /\ ruPc' = "open"
    /\ ruHist' = [ruHist EXCEPT !.op = "reset"]
    /\ UNCHANGED <<ruTree, ruText, ruOthers>>

RuReset(source, skippable, state) ==
    /\ ruPc \in {"parsed", "edited"}
    /\ source \in ReparseSources(ruText)
    /\ RuOpenWith(TSNext(NewTokenSource(source, skippable)), source, state)

\* the history of a query of the cursor at offset q
Queried(op, q, list, given, ok, state) ==
    [calls |-> ruHist.calls + 1, op |-> op, q |-> q, list |-> list,
     fresh |-> q > ruHist.maxQ, maxQ |-> Max(ruHist.maxQ, q),
     lastQ |-> ruHist.q, lastList |-> ruHist.list,
     given |-> given, ok |-> ok, state |-> state]

\* list = idx.candidates(start)
RuCandidates(start) ==
    /\ ruPc = "open"
    /\ ruHist.calls < MaxRuCalls
    /\ start <= Len(ruTs.src)
    /\ \E r \in {candidates(ruCur, start)} :
          /\ ruCur' = r.c
          /\ ruHist' = Queried("candidates", start, r.list, ruTok, FALSE, top(ruStack).state)
    /\ UNCHANGED <<ruPc, ruTree, ruText, ruStack, ruTs, ruTok, ruOthers>>

\* tok, ok = p.tryReuseSubtree(s, lookahead, ts, idx, entryScratch)
RuTryReuse ==
    /\ ruPc = "open"
    /\ ruHist.calls < MaxRuCalls
    /\ \E r \in {tryReuseSubtree(ruStack, ruTok, ruTs, ruCur)} :
          /\ ruCur' = r.idx
          /\ ruStack' = r.s
          /\ ruTs' = r.ts
          /\ ruTok' = r.tok
          /\ ruHist' = Queried("reuse", ruTok.StartByte,
                               candidates(ruCur, ruTok.StartByte).list, ruTok, r.ok,
                               top(ruStack).state)
    /\ UNCHANGED <<ruPc, ruTree, ruText, ruOthers>>

\* the parser takes the next token: lookahead = ts.Next()
RuNextToken ==
    /\ ruPc = "open"
    /\ ruHist.calls < MaxRuCalls
    /\ ruTok.Symbol # 0
    /\ \E nx \in {TSNext(ruTs)} :
          /\ ruTs' = nx.ts
          /\ ruTok' = nx.tok
    /\ ruHist' = [ruHist EXCEPT !.op = "next", !.calls = @ + 1]
    /\ UNCHANGED <<ruPc, ruTree, ruText, ruCur, ruStack, ruOthers>>

RuNext ==
    \/ \E source \in RuSources : RuParse(source)
    \/ \E startByte \in 0..MaxSourceLen, oldEndByte \in 0..MaxSourceLen, text \in RuTexts :
          RuEdit(startByte, oldEndByte, text)
    \/ \E source \in SeqsUpTo(Bytes, MaxSourceLen), skippable \in BOOLEAN, state \in RuStates :
          RuReset(source, skippable, state)
    \/ \E start \in 0..MaxSourceLen : RuCandidates(start)
    \/ RuTryReuse
    \/ RuNextToken

(***************************************************************************)
(* Specifications: one per subsystem, the others parked.                   *)
(***************************************************************************)
ArenaIdle ==
    /\ refs = 0
    /\ used = 0
    /\ pool = 0
    /\ held = [h \in Holders |-> 0]
    /\ relpc = [h \in Holders |-> "idle"]
    /\ arenaHist = [acquires |-> 0, resets |-> 0, puts |-> 0, zeroBy |-> 0,
                    op |-> "none", before |-> 0, maxRefs |-> 0, by |-> 0]

\* the subsystems added after the first four, parked
RestIdle == SlabIdle /\ LexIdle /\ CsIdle /\ EsIdle /\ RuIdle

InitArena == ArenaInit /\ VMIdle /\ MergeIdle /\ IncrIdle /\ RestIdle

SpecArena == InitArena /\ [][ArenaNext]_vars

InitVM == VMInit /\ ArenaIdle /\ MergeIdle /\ IncrIdle /\ RestIdle

SpecVM == InitVM /\ [][VMNext]_vars

InitVMState == VMStateInit /\ ArenaIdle /\ MergeIdle /\ IncrIdle /\ RestIdle

InitMerge == MergeInit /\ ArenaIdle /\ VMIdle /\ IncrIdle /\ RestIdle

SpecMerge == InitMerge /\ [][MergeNext]_vars

InitMergeAlias == MergeAliasInit /\ ArenaIdle /\ VMIdle /\ IncrIdle /\ RestIdle

SpecMergeAlias == InitMergeAlias /\ [][MergeNext]_vars

InitIncr == IncrInit /\ ArenaIdle /\ VMIdle /\ MergeIdle /\ RestIdle

SpecIncr == InitIncr /\ [][IncrNext]_vars

SpecVMState == InitVMState /\ [][VMStateNext]_vars

InitSlab == SlabInit /\ ArenaIdle /\ VMIdle /\ MergeIdle /\ IncrIdle /\ LexIdle /\ CsIdle /\ EsIdle /\ RuIdle

SpecSlab == InitSlab /\ [][SlabNext]_vars

InitLex == LexInit /\ ArenaIdle /\ VMIdle /\ MergeIdle /\ IncrIdle /\ SlabIdle /\ CsIdle /\ EsIdle /\ RuIdle

InitCs == CsInit /\ ArenaIdle /\ VMIdle /\ MergeIdle /\ IncrIdle /\ SlabIdle /\ LexIdle /\ EsIdle /\ RuIdle

SpecCs == InitCs /\ [][CsNext]_vars

SpecLex == InitLex /\ [][LexNextStep]_vars

InitEs == EsInit /\ ArenaIdle /\ VMIdle /\ MergeIdle /\ IncrIdle /\ SlabIdle /\ LexIdle /\ CsIdle /\ RuIdle

SpecEs == InitEs /\ [][EsNext]_vars

InitRu == RuInit /\ ArenaIdle /\ VMIdle /\ MergeIdle /\ IncrIdle /\ SlabIdle /\ LexIdle /\ CsIdle /\ EsIdle

SpecRu == InitRu /\ [][RuNext]_vars

Spec == SpecArena

(***************************************************************************)
(* Node arena: claims.                                                     *)
(***************************************************************************)
InRelease == {h \in Holders : relpc[h] # "idle"}

\* C2: under every interleaving of Retain and Release by concurrent holders,
\* the arena is reset and put back into its pool exactly once per acquire, by
\* the holder whose Release brought the count to zero, and never while some
\* holder still owns an unreleased reference.
C2_ResetPutOnceAtZero ==
    /\ pool <= 1
    /\ Cardinality(InRelease) <= 1
    /\ \A h \in InRelease : arenaHist.zeroBy = h /\ refs = 0
    /\ (pool > 0 \/ InRelease # {}) => TotalHeld = 0
    /\ arenaHist.puts <= arenaHist.resets
    /\ arenaHist.resets <= arenaHist.acquires
    /\ arenaHist.puts + Cardinality({h \in Holders : relpc[h] = "put"}) = arenaHist.resets
    /\ (TotalHeld > 0) => (arenaHist.resets = arenaHist.acquires - 1 /\ pool = 0)
    /\ (TotalHeld = 0 /\ InRelease = {}) =>
          (arenaHist.puts = arenaHist.acquires /\ pool = Min(1, arenaHist.acquires))
    /\ (used > 0) => arenaHist.resets < arenaHist.acquires
    /\ (arenaHist.op = "put") => used = 0

\* A cycle in which the count went above one, the last reference was dropped
\* by a holder other than the acquirer's successor, and the arena is pooled.
C2_Witness ==
    /\ pool = 1
    /\ arenaHist.puts = 1
    /\ arenaHist.maxRefs >= 3
    /\ arenaHist.op = "put"
    /\ arenaHist.by = 3

\* C3: the reference count always equals the number of live references (one
\* per tree that references the arena): 1 right after acquire, one more after
\* each Retain, one less after each Release.
C3_RefsCountLiveTrees ==
    /\ refs = TotalHeld
    /\ (arenaHist.op = "acquire") => refs = 1
    /\ (arenaHist.op = "retain") => refs = arenaHist.before + 1
    /\ (arenaHist.op = "release") => refs = arenaHist.before - 1

C3_Witness ==
    /\ arenaHist.op = "release"
    /\ refs = 2
    /\ Cardinality({h \in Holders : held[h] > 0}) = 2

(***************************************************************************)
(* External scanner VM: claims.                                            *)
(***************************************************************************)
\* max_steps as the claim states it
ClaimedMaxSteps(program) ==
    IF program.MaxSteps > 0 THEN program.MaxSteps ELSE Max(64, 16 * Len(program.Code))

\* C5: every Scan executes at most max_steps instructions (program.MaxSteps
\* when > 0, otherwise max(64, 16 * len(code))) and then returns; a scan whose
\* budget runs out before an emit or fail returns false, as the self-jump does.
C5_ScanStepBounded ==
    (vmRun.phase # "idle") =>
        /\ vmRun.maxSteps = ClaimedMaxSteps(vmProgram)
        /\ vmRun.executed <= ClaimedMaxSteps(vmProgram)
        /\ (vmRun.phase = "running") => vmRun.executed = vmRun.steps
        /\ (vmRun.phase = "done" /\ vmRun.how = "exhausted") =>
              (vmRun.result = FALSE /\ vmRun.executed = ClaimedMaxSteps(vmProgram))
        /\ (vmRun.phase = "done" /\ vmRun.how # "emit") => vmRun.result = FALSE
        /\ (vmRun.phase = "done" /\ vmProgram.Code = LoopGuardCode) =>
              (vmRun.result = FALSE /\ vmRun.how = "exhausted")

\* the five-instruction loop under the default budget: 80 instructions, false
C5_Witness ==
    /\ vmRun.phase = "done"
    /\ vmRun.how = "exhausted"
    /\ vmProgram.MaxSteps = 0
    /\ vmProgram.Code = LongLoopCode
    /\ vmRun.executed = 80
    /\ vmRun.result = FALSE

KValues == 1..12

\* C6 as stated: whatever MaxSteps is, a program of at most K instructions
\* returns within max(64, 16 * K) executed steps.
C6_AnyMaxStepsWithinDefault ==
    \A K \in KValues :
        (vmRun.phase # "idle" /\ Len(vmProgram.Code) <= K) =>
            vmRun.executed <= Max(64, 16 * K)

\* C6 amended: a program of at most K instructions whose MaxSteps is 0 or at
\* most max(64, 16 * K) returns within max(64, 16 * K) executed steps.
C6_DefaultBudgetWithinBound ==
    \A K \in KValues :
        (vmRun.phase # "idle" /\ Len(vmProgram.Code) <= K
         /\ vmProgram.MaxSteps <= Max(64, 16 * K)) =>
            vmRun.executed <= Max(64, 16 * K)

C6_Witness ==
    /\ vmRun.phase = "done"
    /\ vmRun.how = "exhausted"
    /\ vmProgram.MaxSteps = 0
    /\ Len(vmProgram.Code) = 2
    /\ vmRun.executed = 64

\* the defects the claim lists
HasListedDefect(program) ==
    \E i \in 1..Len(program.Code) :
        LET ins == program.Code[i]
            outside(t) == t < 0 \/ t >= Len(program.Code)
        IN \/ ins.Op \notin ExternalVMOpFail..ExternalVMOpEmit
           \/ ins.Op = ExternalVMOpJump /\ outside(ins.A)
           \/ ins.Op \in {ExternalVMOpRequireValid, ExternalVMOpRequireStateEq,
                          ExternalVMOpIfRuneEq, ExternalVMOpIfRuneInRange,
                          ExternalVMOpIfRuneClass} /\ outside(ins.Alt)
           \/ ins.Op = ExternalVMOpIfRuneInRange /\ ins.B < ins.A
           \/ ins.Op \in {ExternalVMOpRequireValid, ExternalVMOpRequireStateEq,
                          ExternalVMOpSetState, ExternalVMOpEmit} /\ ins.A < 0

\* C7: NewExternalVMScanner returns an error and no scanner for every program
\* with an unknown opcode, an out-of-range jump or alternate target, an
\* inverted rune range, or a negative symbol or state index (require_valid,
\* require_state_eq, set_state, emit); it accepts only programs with none.
C7_RejectsEveryListedDefect ==
    /\ (vmBuilt # "unbuilt" /\ HasListedDefect(vmProgram)) => vmBuilt = "error"
    /\ (vmBuilt = "ok") => ~HasListedDefect(vmProgram)

\* the scan reached the end of the code from its last instruction, and not by a jump
FellOffEnd(run, code) ==
    /\ run.last.pc = Len(code) - 1
    /\ run.last.op # ExternalVMOpJump
    /\ run.last.op \in {ExternalVMOpRequireValid, ExternalVMOpRequireStateEq, ExternalVMOpIfRuneEq,
                        ExternalVMOpIfRuneInRange, ExternalVMOpIfRuneClass} =>
          run.last.alt # Len(code)

\* C36: for every program accepted by validation and every input, each
\* instruction fetch in Scan uses a pc with 0 <= pc < len(code); a pc that
\* moves past the last instruction does so by falling through and makes Scan
\* return false instead of a read outside the program; Scan returns true
\* only by executing an emit instruction.
C36_FetchInsideProgram ==
    (vmRun.phase # "idle") =>
        /\ vmRun.pc >= 0 /\ vmRun.pc <= Len(vmProgram.Code)
        /\ vmRun.last # NoInstr =>
              (vmRun.last.pc >= 0 /\ vmRun.last.pc < Len(vmProgram.Code)
               /\ vmRun.last.op = vmProgram.Code[vmRun.last.pc + 1].Op)
        /\ vmRun.pc = Len(vmProgram.Code) => FellOffEnd(vmRun, vmProgram.Code)
        /\ vmRun.how = "ranoff" =>
              (vmRun.phase = "done" /\ vmRun.result = FALSE /\ vmRun.pc = Len(vmProgram.Code))
        /\ vmRun.result => (vmRun.how = "emit" /\ vmRun.last.op = ExternalVMOpEmit)

\* C36 witness: the two rune tests of the run-off program passed and the
\* scan returned false at pc 2, past its last instruction.
C36_Witness ==
    /\ vmRun.phase = "done"
    /\ vmRun.how = "ranoff"
    /\ vmProgram.Code = RunOffCode
    /\ vmRun.pc = 2
    /\ vmRun.executed = 2
    /\ vmRun.result = FALSE

\* the state word the claim expects in the payload when the scan has returned
LastSetOrPrior(run) == IF run.lastSet < 0 THEN run.prior ELSE Uint32(run.lastSet)

\* C37: Scan writes its working state word back to the payload on every
\* return path (emit, fail, running off the end, budget exhausted): the
\* payload state after Scan is the operand of the last set_state executed, or
\* the prior state when none was executed, also when Scan returns false.
C37_StateWrittenOnEveryReturn ==
    /\ (vmRun.phase = "done") => vmPay[vmRun.pay] = LastSetOrPrior(vmRun)
    /\ (vmRun.phase = "running") => vmPay[vmRun.pay] = vmRun.prior

\* C37 witness: a scan that set the state to 1 and then failed has returned
\* false and left 1 in a payload that held 0.
C37_Witness ==
    /\ vmRun.phase = "done"
    /\ vmRun.how = "fail"
    /\ vmRun.result = FALSE
    /\ vmRun.prior = Uint32(0)
    /\ vmRun.lastSet = 1
    /\ vmPay[vmRun.pay] = Uint32(1)

\* TRUE when validSymbols[i] exists and is true
SymbolIsValid(validSymbols, i) == i < Len(validSymbols) /\ validSymbols[i + 1]

\* C9: require_valid(i, alt) continues to the next instruction only when
\* i < len(validSymbols) and validSymbols[i] is true; otherwise control goes
\* to alt, with no read outside validSymbols; a scan whose token is gated on
\* an invalid symbol returns false and produces no token.
C9_RequireValidGate ==
    /\ vmRun.how # "panic"
    /\ (vmRun.phase # "idle" /\ vmRun.last.op = ExternalVMOpRequireValid) =>
          /\ SymbolIsValid(vmRun.valid, vmRun.last.a) => vmRun.pc = vmRun.last.pc + 1
          /\ ~SymbolIsValid(vmRun.valid, vmRun.last.a) => vmRun.pc = vmRun.last.alt
    /\ (/\ vmRun.phase = "done"
        /\ vmProgram.Code[1].Op = ExternalVMOpRequireValid
        /\ vmProgram.Code[vmProgram.Code[1].Alt + 1].Op = ExternalVMOpFail
        /\ ~SymbolIsValid(vmRun.valid, vmProgram.Code[1].A)) =>
          (vmRun.result = FALSE /\ ~LexHasToken(vmLexer))

\* the gate of the test program closed by a validSymbols list too short for
\* the index: the scan of "#" returns false without a token
C9_Witness ==
    /\ vmRun.phase = "done"
    /\ vmProgram.Code = <<VMRequireValid(1, 1), VMFail>>
    /\ vmRun.valid = <<TRUE>>
    /\ vmLexer.input = <<RuneHash>>
    /\ vmRun.result = FALSE
    /\ ~LexHasToken(vmLexer)

\* C8: Serialize into a buffer of at least 4 bytes returns 4 and writes the
\* state little-endian; Deserialize of those bytes into a fresh payload gives
\* the same state, so a Scan on the restored payload has the result and the
\* symbol of a Scan on the serialized payload; a fresh payload that was not
\* deserialized holds state 0 and fails a require_state_eq(v) with v # 0.
C8_StateRoundTrip ==
    /\ (vmHist.serN >= 0 /\ vmHist.serLen >= 4) =>
          /\ vmHist.serN = 4
          /\ vmBuf[1] = vmHist.serState.lo % 256
          /\ vmBuf[2] = vmHist.serState.lo \div 256
          /\ vmBuf[3] = vmHist.serState.hi % 256
          /\ vmBuf[4] = vmHist.serState.hi \div 256
          /\ \A p \in vmHist.restored : vmPay[p] = vmHist.serState
          /\ \A p \in Payloads, q \in Payloads :
                (/\ vmHist.scan[p].origin = "serialized"
                 /\ vmHist.scan[q].origin = "restored"
                 /\ vmHist.scan[p].input = vmHist.scan[q].input
                 /\ vmHist.scan[p].valid = vmHist.scan[q].valid) =>
                    /\ vmHist.scan[p].result = vmHist.scan[q].result
                    /\ vmHist.scan[p].hasToken = vmHist.scan[q].hasToken
                    /\ vmHist.scan[p].symbol = vmHist.scan[q].symbol
    /\ \A p \in vmHist.fresh :
          /\ vmPay[p] = Uint32(0)
          /\ \A i \in 1..Len(vmProgram.Code) :
                (vmProgram.Code[i].Op = ExternalVMOpRequireStateEq /\ vmProgram.Code[i].A # 0) =>
                    ExecInstr(vmProgram.Code[i], <<>>, i - 1, vmPay[p],
                              newExternalLexer(<<>>)).pc = vmProgram.Code[i].Alt
    /\ \A p \in Payloads :
          (/\ vmHist.scan[p].origin = "fresh"
           /\ vmProgram.Code = RoundTripCode
           /\ vmHist.scan[p].input = <<RuneClose>>) => vmHist.scan[p].result = FALSE

\* the scenario of the round-trip test: state 1 serialized into 5 bytes,
\* restored into payload 2, and "]" scanned with symbol 11 on both payloads
C8_Witness ==
    /\ vmProgram.Code = RoundTripCode
    /\ vmHist.serLen = 5
    /\ vmHist.serState = Uint32(1)
    /\ vmHist.scan[1].origin = "serialized"
    /\ vmHist.scan[2].origin = "restored"
    /\ vmHist.scan[1].input = <<RuneClose>>
    /\ vmHist.scan[2].input = <<RuneClose>>
    /\ vmHist.scan[2].result = TRUE
    /\ vmHist.scan[2].symbol = 11

(***************************************************************************)
(* GLR stack merging: claims.                                              *)
(***************************************************************************)
\* the live stacks of the list given to the last merge, in input order
LiveInput == SelectSeq(mergeHist.input, LAMBDA s : ~s.dead)

\* positions of LiveInput where a top state occurs for the first time
FirstSeen ==
    {i \in 1..Len(LiveInput) :
        \A k \in 1..(i - 1) : top(LiveInput[k]).state # top(LiveInput[i]).state}

\* the earliest position among the highest-scoring live stacks whose top
\* state is that of position i
EarliestBest(i) ==
    LET same == {m \in 1..Len(LiveInput) : top(LiveInput[m]).state = top(LiveInput[i]).state}
        best == {m \in same : \A n \in same : LiveInput[m].score >= LiveInput[n].score}
    IN CHOOSE m \in best : \A n \in best : m <= n

\* C10: the result of a merge lists the surviving top states in the order of
\* their first occurrence among the live input stacks, and for each top state
\* keeps the earliest of the live stacks that tie on the highest score; the
\* result is a function of the input list alone.
C10_MergeOrderPreserving ==
    (mergePc = "merged") =>
        /\ Len(mergeHist.out) = Cardinality(FirstSeen)
        /\ \A i \in FirstSeen :
              LET j == Cardinality({p \in FirstSeen : p <= i})
              IN /\ top(mergeHist.out[j]).state = top(LiveInput[i]).state
                 /\ mergeHist.out[j] = LiveInput[EarliestBest(i)]
        /\ mergeHist.out = mergeStacks([items |-> mergeHist.input, backing |-> "caller"]).out.items

\* a merge returned two top states, one of them from three live stacks of
\* which the later two tie on the highest score
C10_Witness ==
    /\ mergePc = "merged"
    /\ Len(mergeHist.out) = 2
    /\ \E i, m, n \in 1..Len(LiveInput) :
          /\ i < m /\ m < n
          /\ top(LiveInput[i]).state = top(LiveInput[m]).state
          /\ top(LiveInput[m]).state = top(LiveInput[n]).state
          /\ LiveInput[i].score < LiveInput[m].score
          /\ LiveInput[m].score = LiveInput[n].score
          /\ EarliestBest(i) = m
          /\ LiveInput[m] \in {mergeHist.out[j] : j \in 1..Len(mergeHist.out)}

(***************************************************************************)
(* Incremental reuse engine: claims.                                       *)
(***************************************************************************)
\* structural equality, node for node: symbol, start and end byte, the named
\* and missing flags, the child count
RECURSIVE SameShape(_, _)
SameShape(m, n) ==
    /\ m.symbol = n.symbol
    /\ m.startByte = n.startByte
    /\ m.endByte = n.endByte
    /\ m.isNamed = n.isNamed
    /\ m.isMissing = n.isMissing
    /\ Len(m.children) = Len(n.children)
    /\ \A i \in 1..Len(m.children) : SameShape(m.children[i], n.children[i])

\* C1: for every source and every edit applied to the old tree, the tree of
\* the incremental parse of the edited source is structurally equal, node for
\* node, to the tree of a cold parse of the edited source.
C1_EditReparseEquivalence ==
    (incrPc = "reparsed" /\ incrHist.hadEdits) =>
        SameShape(incrResult.root, Parse(incrText, 3).root)

\* C4: an incremental parse with an old tree that has no pending edit returns
\* that same tree, unchanged, without lexing a token, allocating a node or
\* grafting, and without an error.
C4_NoEditFastPath ==
    (incrPc = "reparsed" /\ ~incrHist.hadEdits) =>
        /\ incrResult = incrHist.old
        /\ incrResult.id = incrTree.id
        /\ incrTree = incrHist.old
        /\ incrHist.lexed = 0 /\ incrHist.allocs = 0 /\ incrHist.reused = 0
        /\ incrHist.status = "same"
        /\ ~incrResult.root.hasError

\* the no-edit reparse was asked for a text other than the one of the tree
C4_Witness ==
    /\ incrPc = "reparsed"
    /\ ~incrHist.hadEdits
    /\ incrText # incrTree.source
    /\ incrResult.id = incrTree.id
    /\ Len(incrResult.root.children) = 2

(***************************************************************************)
(* Arena slice slabs: claims.                                              *)
(***************************************************************************)
\* two slices of one kind share no cell
SlicesDisjoint(a, b) == a.slab # b.slab \/ a.end <= b.start \/ b.end <= a.start

\* every slice of the list lies inside its slab, holds at least one cell, and
\* no two slices of the list share a cell
AllDisjoint(list, slabs) ==
    /\ \A k \in 1..Len(list) :
          /\ list[k].slab < Len(slabs)
          /\ 0 <= list[k].start /\ list[k].start < list[k].end
          /\ list[k].end <= Len(slabs[list[k].slab + 1].data)
    /\ \A k \in 1..Len(list) : \A l \in 1..Len(list) :
          k # l => SlicesDisjoint(list[k], list[l])

\* C11: between two resets of one arena, any two slices returned by
\* allocNodeSlice occupy disjoint index ranges of the child slabs and any two
\* slices returned by allocFieldIDSlice occupy disjoint index ranges of the
\* field slabs, also for sizes above the default slab capacity and for
\* sequences that force new slabs.
C11_SlicesDisjoint ==
    /\ AllDisjoint(slabHist.child, childSlabs)
    /\ AllDisjoint(slabHist.field, fieldSlabs)

\* C11 witness: after a reset, two slices share a slab and a third, larger
\* than the default capacity, lies in a slab added for it.
C11_Witness ==
    /\ slabHist.resets > 0
    /\ \E k, l, g \in 1..Len(slabHist.field) :
          /\ k # l
          /\ slabHist.field[k].slab = slabHist.field[l].slab
          /\ slabHist.field[g].end - slabHist.field[g].start > SlabCap
          /\ slabHist.field[g].slab > 0

\* C12: for n > 0 allocFieldIDSlice(n) returns a slice of length exactly n
\* whose entries are all zero, also when the cells it hands out were written
\* by an earlier allocation before the arena was reset; for n <= 0 it returns
\* a nil slice.
C12_FieldSliceZeroed ==
    (slabHist.last.kind = "field") =>
        IF slabHist.last.n > 0
        THEN /\ ~slabHist.last.out.nil
             /\ Len(slabHist.last.cells) = slabHist.last.n
             /\ \A j \in 1..Len(slabHist.last.cells) : slabHist.last.cells[j] = 0
        ELSE slabHist.last.out.nil /\ slabHist.last.cells = <<>>

\* C12 witness: a field slice of two cells that an earlier allocation had
\* filled before a reset.
C12_Witness ==
    /\ slabHist.last.kind = "field"
    /\ slabHist.last.n = 2
    /\ slabHist.last.stale
    /\ slabHist.resets > 0
    /\ slabHist.last.cells = <<0, 0>>

(***************************************************************************)
(* Hand-written token sources: claims.                                     *)
(***************************************************************************)
\* the token is the EOF token of the source
IsEOFToken(ts, tok) ==
    tok.Symbol = 0 /\ tok.StartByte = Len(ts.src) /\ tok.EndByte = Len(ts.src)

\* C13: for the TOML, HTML and generic token sources, in any state and for
\* every offset, SkipToByte(offset) returns either the EOF token or a token
\* whose StartByte is >= offset, whether the skip moves forward or rewinds.
C13_SkipToByteAtOrAfter ==
    (lexHist.op = "skip") =>
        \/ IsEOFToken(lexTs, lexTok)
        \/ lexTok.StartByte >= lexHist.offset

\* C13 witness: a skip into the middle of a two-byte rune returned a token,
\* not EOF, that starts after the rune.
C13_Witness ==
    /\ lexHist.op = "skip"
    /\ lexTs.src = <<"C3", "A9", "a", "\n">>
    /\ lexHist.offset = 1
    /\ lexTok.StartByte = 2
    /\ lexTok.Symbol # 0

\* the language lacks a token symbol that the tokenizer of the kind requires
LacksRequired(kind, lang) ==
    CASE kind = "toml" ->
            \/ SymbolByName(lang, "bare_key") = 0
            \/ \A n \in {"integer_token1", "integer_token2", "integer_token3",
                         "integer_token4", "float_token1", "float_token2"} :
                  SymbolByName(lang, n) = 0
      [] kind = "html" ->
            \E n \in {"<", "</", ">", "tag_name", "text"} : SymbolByName(lang, n) = 0
      [] OTHER -> FALSE

\* C14: when the language descriptor lacks a token symbol the tokenizer
\* requires, NewTomlTokenSource and NewHTMLTokenSource return an error and no
\* token source, and the OrEOF constructors return a sentinel source whose
\* Next returns the EOF symbol (0) on every call.
C14_MissingSymbols ==
    (lexHist.ctor # "none" /\ LacksRequired(lexHist.kind, lexHist.lang)) =>
        IF lexHist.ctor = "plain"
        THEN lexHist.err /\ lexTs = NoTokenSource
        ELSE /\ lexTs.kind = "eof"
             /\ lexHist.op = "next" => lexTok.Symbol = 0

\* C14 witness: the sentinel made for a TOML language without number tokens
\* answered a Next.
C14_Witness ==
    /\ lexHist.ctor = "orEOF"
    /\ lexHist.kind = "toml"
    /\ lexHist.lang = Without(TomlLanguage, {"integer_token1", "float_token1"})
    /\ lexHist.op = "next"
    /\ lexTs.kind = "eof"
    /\ Len(lexTs.src) > 0

\* C15: the tokens returned by Next until EOF, in order, with the bytes
\* skipped between them, reproduce the source, and every skipped byte is
\* whitespace.
C15_TokensCoverSource ==
    (lexHist.op = "next" /\ lexHist.pure /\ lexTs.kind \in LexKinds) =>
        lexHist.ordered /\ ~lexHist.dropped

(***************************************************************************)
(* Reuse engine: claims.                                                   *)
(***************************************************************************)
\* the nodes of the subtree of n
RECURSIVE SubtreeKeys(_)
SubtreeKeys(n) ==
    {NodeKey(n)} \cup UNION {SubtreeKeys(n.children[i]) : i \in 1..Len(n.children)}

\* C16: the reuse engine never writes to a node of a grafted subtree: during
\* cursor traversal and tryReuseSubtree no field, the dirty flag included, of
\* an old-tree node that is grafted, or of one of its descendants, is
\* modified, before or after the graft.
C16_GraftedNeverWritten ==
    \A g \in incrHist.grafted : incrHist.written \cap SubtreeKeys(g) = {}

(***************************************************************************)
(* Lexer-table extraction: claims.                                         *)
(***************************************************************************)
CodePoints == 0..maxLookaheadRune

\* c is in a transition made for the condition
InTransitions(c) ==
    \E i \in 1..Len(csState.Transitions) :
        csState.Transitions[i].Lo <= c /\ c <= csState.Transitions[i].Hi

\* the entries of the set whose two literals parsed
ParsedEntries == {i \in 1..Len(csEntries) : csEntries[i].lo.ok /\ csEntries[i].hi.ok}

\* c is between lo and hi of a declared entry
InDeclared(c) ==
    \E i \in ParsedEntries : csEntries[i].lo.v <= c /\ c <= csEntries[i].hi.v

\* c is between the two bounds of a declared entry, in either order
InDeclaredEitherOrder(c) ==
    \E i \in ParsedEntries :
        \/ csEntries[i].lo.v <= c /\ c <= csEntries[i].hi.v
        \/ csEntries[i].hi.v <= c /\ c <= csEntries[i].lo.v

SetConditionMade == csPc = "parsed" /\ ~csHist.err

\* C17 as stated: for every extracted character set S and every code point c
\* in [0, max rune], c belongs to the transition ranges made for
\* set_contains(S, n, lookahead) exactly when c lies in a declared range of
\* S, and the condition never matches end of input.
C17_SetContainsIsMembership ==
    SetConditionMade =>
        /\ \A c \in CodePoints : InTransitions(c) <=> InDeclared(c)
        /\ csState.EOF < 0

\* C17, corrected: the same, a declared entry whose bounds are reversed
\* counting as the range between its bounds.
C17_SetContainsIsMembershipEitherOrder ==
    SetConditionMade =>
        /\ \A c \in CodePoints : InTransitions(c) <=> InDeclaredEitherOrder(c)
        /\ csState.EOF < 0

\* C17 witness: a condition made from two overlapping entries, one running
\* past the largest rune, merged into one transition.
C17_Witness ==
    /\ SetConditionMade
    /\ Len(csEntries) = 2
    /\ csEntries[1] = [lo |-> Literal(1), hi |-> Literal(maxLookaheadRune + 1)]
    /\ csEntries[2] = [lo |-> Literal(0), hi |-> Literal(1)]
    /\ Len(csState.Transitions) = 1

(***************************************************************************)
(* GLR stack merging: further claims.                                      *)
(***************************************************************************)
OutTops == {top(mergeHist.out[j]).state : j \in 1..Len(mergeHist.out)}

LiveTops == {top(LiveInput[i]).state : i \in 1..Len(LiveInput)}

\* C18: the result of mergeStacks holds no dead stack and exactly one stack
\* for each top state of the live input stacks; the stack kept for a state
\* has the highest score of the live input stacks with that state, and is
\* one of the input stacks, its entries, score and accepted flag unmodified.
C18_MergeKeepsBestPerState ==
    (mergePc = "merged") =>
        /\ \A j \in 1..Len(mergeHist.out) : ~mergeHist.out[j].dead
        /\ \A j, k \in 1..Len(mergeHist.out) :
              j # k => top(mergeHist.out[j]).state # top(mergeHist.out[k]).state
        /\ OutTops = LiveTops
        /\ \A j \in 1..Len(mergeHist.out) :
              /\ \E i \in 1..Len(mergeHist.input) : mergeHist.out[j] = mergeHist.input[i]
              /\ \A i \in 1..Len(LiveInput) :
                    top(LiveInput[i]).state = top(mergeHist.out[j]).state
                        => LiveInput[i].score <= mergeHist.out[j].score

\* C18 witness: a merge of a list with a dead stack and two live stacks of
\* one top state, the later with the higher score, kept the later one.
C18_Witness ==
    /\ mergePc = "merged"
    /\ Len(mergeHist.input) = 3
    /\ mergeHist.input[2].dead
    /\ ~mergeHist.input[1].dead /\ ~mergeHist.input[3].dead
    /\ top(mergeHist.input[1]).state = top(mergeHist.input[3]).state
    /\ mergeHist.input[1].score < mergeHist.input[3].score
    /\ mergeHist.out = <<mergeHist.input[3]>>

\* C19: the two merge regimes are equivalent: for any list of live stacks
\* the linear scan and the hashed index compute the same surviving stacks in
\* the same order, so the regime chosen by the list size never changes the
\* merge result.
C19_RegimesEquivalent ==
    (mergePc = "merged") =>
        /\ MergeBy(LiveInput, FALSE) = MergeBy(LiveInput, TRUE)
        /\ Len(LiveInput) > 1 => mergeHist.out = MergeBy(LiveInput, mergeHist.path # "hashed")

\* C19 witness: a merge in the hashed regime replaced a kept stack by a later
\* one, and the linear scan of the same list gives the same result.
C19_Witness ==
    /\ mergePc = "merged"
    /\ mergeHist.path = "hashed"
    /\ Len(LiveInput) > LinearMergeMax
    /\ \E i \in FirstSeen : EarliestBest(i) # i
    /\ mergeHist.out = MergeBy(LiveInput, FALSE)

\* the score of every stack is the score its fork started with plus the
\* dynamic precedences of the reduces it performed
ScoreFromReducesOnly ==
    \A i \in 1..Len(stacks.items) :
        stacks.items[i].score = mergeHist.expect[ForkOf(stacks.items[i])]

HasReduced(s) == ForkOf(s) \in mergeHist.reduced

\* the live input stacks that reduced and share the top state of s
ReducedRivals(s) ==
    {i \in 1..Len(LiveInput) :
        top(LiveInput[i]).state = top(s).state /\ HasReduced(LiveInput[i])}

\* C20 as stated: a score changes only through reduces (push and clone leave
\* it unchanged), and at a merge of live stacks with one top state a stack
\* that performed no reduce is never kept in preference to one that
\* performed a reduce, whatever the dynamic precedences are.
C20_NoReduceNeverPreferred ==
    /\ ScoreFromReducesOnly
    /\ (mergePc = "merged") =>
          \A j \in 1..Len(mergeHist.out) :
              ReducedRivals(mergeHist.out[j]) # {} => HasReduced(mergeHist.out[j])

\* C20, corrected: a score changes only through reduces, and a stack that
\* performed no reduce is kept in preference to one that performed a reduce
\* only when the score of the latter is not the higher one.
C20_NoReducePreferredOnlyIfNotOutscored ==
    /\ ScoreFromReducesOnly
    /\ (mergePc = "merged") =>
          \A j \in 1..Len(mergeHist.out) :
              ~HasReduced(mergeHist.out[j]) =>
                  \A i \in ReducedRivals(mergeHist.out[j]) :
                      LiveInput[i].score <= mergeHist.out[j].score

\* C20 witness: after a reduce with a positive precedence, the merge dropped
\* an earlier stack that never reduced for the stack that reduced.
C20_Witness ==
    /\ mergePc = "merged"
    /\ mergeHist.step = "reduce"
    /\ \E a, b \in 1..Len(LiveInput) :
          /\ a < b
          /\ top(LiveInput[a]).state = top(LiveInput[b]).state
          /\ ~HasReduced(LiveInput[a])
          /\ HasReduced(LiveInput[b])
          /\ LiveInput[b].score > LiveInput[a].score
          /\ LiveInput[b] \in {mergeHist.out[j] : j \in 1..Len(mergeHist.out)}
          /\ LiveInput[a] \notin {mergeHist.out[j] : j \in 1..Len(mergeHist.out)}

(***************************************************************************)
(* Stack entry scratch: claims.                                            *)
(***************************************************************************)
\* the cells [start, start+cap) of two slices of one slab overlap
EntriesShare(a, b) ==
    /\ a.slab = b.slab
    /\ a.start < b.start + b.cap
    /\ b.start < a.start + a.cap

\* C21: a forked stack is independent of its origin: cloneWithScratch gives
\* a stack with the same entries and score, dead and accepted cleared, in a
\* fresh region of the entry slab, and after any later pushes on any stack of
\* the scratch, pushes that grow a stack included, the entries of every other
\* stack are unchanged, because no two stacks share entry storage.
C21_ForkIndependent ==
    /\ \A i \in 1..Len(esStacks) : EntriesOf(esSlabs, esStacks[i].entries) = esHist.expect[i]
    /\ \A i, j \in 1..Len(esStacks) :
          i # j => ~EntriesShare(esStacks[i].entries, esStacks[j].entries)
    /\ esHist.op = "clone" =>
          /\ esStacks[esHist.k].score = esStacks[esHist.from].score
          /\ ~esStacks[esHist.k].dead /\ ~esStacks[esHist.k].accepted

\* C21 witness: after a clone, a push grew the original while the clone, in
\* the same slab, kept its entries.
C21_Witness ==
    /\ esHist.op = "push" /\ esHist.grew
    /\ Len(esStacks) >= 2
    /\ \E i \in 1..Len(esStacks) :
          /\ i # esHist.k
          /\ esHist.expect[i] # esHist.expect[esHist.k]
          /\ Len(esHist.expect[i]) >= 2
    /\ Len(esSlabs) >= 2

(***************************************************************************)
(* Reuse cursor and grafting: claims.                                      *)
(***************************************************************************)
\* the bytes [start_byte, end_byte) of both sources are in range and equal
UnchangedBytes(n, old, new) ==
    /\ n.startByte <= n.endByte
    /\ n.endByte <= Len(old) /\ n.endByte <= Len(new)
    /\ \A i \in (n.startByte + 1)..n.endByte : old[i] = new[i]

\* a node that is dirty and whose bytes do not let the flag be cleared
StaysDirty(n) == n.dirty /\ ~UnchangedBytes(n, ruTree.source, ruTs.src)

\* the old tree in pre-order, each node with whether an ancestor stays dirty
RECURSIVE Walk(_, _)
RECURSIVE WalkKids(_, _, _)
Walk(n, under) ==
    <<ReuseFrame(n, under)>> \o WalkKids(n.children, 1, under \/ StaysDirty(n))

WalkKids(kids, i, under) ==
    IF i > Len(kids) THEN <<>> ELSE Walk(kids[i], under) \o WalkKids(kids, i + 1, under)

OldWalk == Walk(ruTree.root, FALSE)

\* the conditions under which a visited node is yielded
Eligible(f) ==
    /\ ~StaysDirty(f.node)
    /\ ~f.node.hasError
    /\ f.node.endByte > f.node.startByte
    /\ f.node.endByte <= Len(ruTs.src)
    /\ ~(/\ f.underDirty
         /\ ruTree.edits # <<>>
         /\ \A k \in 1..Len(ruTree.edits) : f.node.endByte <= ruTree.edits[k].StartByte)

\* a node as it is yielded: its dirty flag is clear
Clean(n) == [n EXCEPT !.dirty = FALSE]

\* the positions in the pre-order walk that have been yielded
YieldedAt == {ruCur.yielded[i].at : i \in 1..Len(ruCur.yielded)}

\* children inside their parent's range, in non-decreasing order
RECURSIVE WellOrdered(_)
WellOrdered(n) ==
    /\ \A i \in 1..Len(n.children) :
          /\ n.startByte <= n.children[i].startByte
          /\ n.children[i].endByte <= n.endByte
          /\ WellOrdered(n.children[i])
    /\ \A i \in 1..(Len(n.children) - 1) :
          n.children[i].startByte <= n.children[i + 1].startByte

\* C22: every node the reuse cursor yields is, when it is yielded, not
\* dirty, without error, with end_byte > start_byte and end_byte <= the
\* length of the new source, and is not a node under a dirty ancestor that
\* ends at or before the smallest start_byte of the edits; candidates()
\* returns only nodes that were yielded.
C22_YieldedAreReusable ==
    ruPc = "open" =>
       /\ \A i \in 1..Len(ruCur.yielded) :
             /\ ~ruCur.yielded[i].node.dirty
             /\ ~ruCur.yielded[i].node.hasError
             /\ ruCur.yielded[i].node.endByte > ruCur.yielded[i].node.startByte
             /\ ruCur.yielded[i].node.endByte <= Len(ruTs.src)
             /\ ruCur.yielded[i].node = Clean(OldWalk[ruCur.yielded[i].at].node)
             /\ ~(/\ OldWalk[ruCur.yielded[i].at].underDirty
                  /\ ruTree.edits # <<>>
                  /\ ruCur.yielded[i].node.endByte <= MinStartByte(ruTree.edits))
       /\ \A k \in 1..Len(ruHist.list) :
             \E i \in 1..Len(ruCur.yielded) : ruHist.list[k] = ruCur.yielded[i].node
       /\ \A k \in 1..Len(ruCur.cached) :
             \E i \in 1..Len(ruCur.yielded) : ruCur.cached[k] = ruCur.yielded[i].node

\* C22 witness: candidates() returned nodes, a node was yielded after its
\* dirty flag was cleared, and a node that only its place under a dirty
\* ancestor before the edits rules out was visited and not yielded.
C22_Witness ==
    /\ ruPc = "open" /\ ruHist.op = "candidates" /\ ruHist.list # <<>>
    /\ \E i \in 1..Len(ruCur.yielded) : ruCur.popped[ruCur.yielded[i].at].node.dirty
    /\ \E i \in 1..Len(ruCur.popped) :
          /\ i \notin YieldedAt
          /\ ruCur.popped[i].underDirty
          /\ ~StaysDirty(ruCur.popped[i].node) /\ ~ruCur.popped[i].node.hasError
          /\ ruCur.popped[i].node.endByte > ruCur.popped[i].node.startByte
          /\ ruCur.popped[i].node.endByte <= Len(ruTs.src)

\* the visited nodes whose dirty flag the cursor has to clear
ToClear ==
    {i \in 1..Len(ruCur.popped) :
        /\ ruCur.popped[i].node.dirty
        /\ UnchangedBytes(ruCur.popped[i].node, ruTree.source, ruTs.src)}

\* C23: when the cursor visits a node it clears the dirty flag exactly when
\* the node is dirty and the bytes [start_byte, end_byte) of the old and of
\* the new source are in range and equal; the node then counts as clean for
\* being yielded and for the under_dirty flag of its children; otherwise the
\* flag is left as it was and a dirty node is not yielded.
C23_DirtyClearedWhenUnchanged ==
    ruPc = "open" =>
       /\ ruCur.written = {NodeKey(ruCur.popped[i].node) : i \in ToClear}
       /\ \A i \in 1..Len(ruCur.popped) :
             /\ ruCur.popped[i].underDirty = OldWalk[i].underDirty
             /\ i \in ToClear => (i \in YieldedAt <=> Eligible(OldWalk[i]))
             /\ ruCur.popped[i].node.dirty /\ i \notin ToClear => i \notin YieldedAt
       /\ \A i \in 1..Len(ruCur.yielded) : ~ruCur.yielded[i].node.dirty

\* C23 witness: a dirty node with unchanged bytes was cleared and yielded and
\* its first child was visited, while another node stayed dirty.
C23_Witness ==
    /\ ruPc = "open"
    /\ \E i \in ToClear :
          /\ i \in YieldedAt
          /\ ruCur.popped[i].node.children # <<>>
          /\ i + 1 <= Len(ruCur.popped)
    /\ \E k \in 1..Len(ruCur.popped) : StaysDirty(ruCur.popped[k].node)

\* the nodes of a tree
RECURSIVE NodeCount(_)
RECURSIVE KidsCount(_, _)
NodeCount(n) == 1 + KidsCount(n.children, 1)

KidsCount(kids, i) ==
    IF i > Len(kids) THEN 0 ELSE NodeCount(kids[i]) + KidsCount(kids, i + 1)

\* the old tree in pre-order: a parent before its children, children left to
\* right
RECURSIVE PreOrder(_)
RECURSIVE PreOrderKids(_, _)
PreOrder(n) == <<n>> \o PreOrderKids(n.children, 1)

PreOrderKids(kids, i) ==
    IF i > Len(kids) THEN <<>> ELSE PreOrder(kids[i]) \o PreOrderKids(kids, i + 1)

\* C26: the reuse cursor traverses the old tree in pre-order: every node is
\* popped at most once, a parent before its children and children left to
\* right; for a tree whose children lie inside their parent's range in
\* non-decreasing order the yielded nodes have non-decreasing start_byte;
\* and the traversal ends, advance returning no node, after at most as many
\* pops as the tree has nodes.
C26_PreOrderTraversal ==
    ruPc = "open" =>
       /\ Len(ruCur.popped) <= NodeCount(ruTree.root)
       /\ \A i \in 1..Len(ruCur.popped) : ruCur.popped[i].node = PreOrder(ruTree.root)[i]
       /\ \A i \in 1..Len(ruCur.yielded) : \A j \in 1..Len(ruCur.yielded) :
             i < j => ruCur.yielded[i].at < ruCur.yielded[j].at
       /\ WellOrdered(ruTree.root) =>
             \A i \in 1..(Len(ruCur.yielded) - 1) :
                ruCur.yielded[i].node.startByte <= ruCur.yielded[i + 1].node.startByte
       /\ ruCur.stack = <<>> <=> Len(ruCur.popped) = NodeCount(ruTree.root)
       /\ ruCur.stack = <<>> => advance(ruCur).node = NilNode

\* C26 witness: the traversal of a tree of at least five nodes has ended, and
\* it yielded nodes at two different offsets.
C26_Witness ==
    /\ ruPc = "open"
    /\ ruCur.stack = <<>> /\ ruCur.next = NilNode
    /\ Len(ruCur.popped) >= 5
    /\ \E i \in 1..Len(ruCur.yielded) :
          ruCur.yielded[i].node.startByte > ruCur.yielded[1].node.startByte

\* the nodes candidates(q) is to return: the eligible nodes that start at q,
\* in pre-order, as they are yielded
StartingAt(q) ==
    LET hits == SelectSeq(OldWalk, LAMBDA f : Eligible(f) /\ f.node.startByte = q)
    IN [i \in 1..Len(hits) |-> Clean(hits[i].node)]

\* the last call queried the cursor at an offset greater than every earlier one
FreshQuery == ruPc = "open" /\ ruHist.op \in {"candidates", "reuse"} /\ ruHist.fresh

\* C24: for an old tree whose children lie inside their parent's range in
\* non-decreasing order, candidates(start) with a start greater than every
\* earlier queried offset returns exactly the yield-eligible nodes with
\* start_byte = start, outermost first, and no node with another start_byte;
\* eligible nodes with a smaller start_byte are discarded and no eligible
\* node that starts at start is missed.
C24_CandidatesAtStart ==
    FreshQuery /\ WellOrdered(ruTree.root) =>
       /\ ruHist.list = StartingAt(ruHist.q)
       /\ ruCur.cached = ruHist.list
       /\ \A i \in 1..Len(OldWalk) :
             Eligible(OldWalk[i]) /\ OldWalk[i].node.startByte < ruHist.q => i \in YieldedAt
       /\ ruCur.next # NilNode => ruCur.next.startByte > ruHist.q

\* C24 witness: after an earlier query, a query at a greater offset returned
\* two nodes or more and discarded an eligible node that starts between the
\* two offsets.
C24_Witness ==
    /\ FreshQuery /\ WellOrdered(ruTree.root)
    /\ ruHist.lastQ # NoQuery
    /\ Len(ruHist.list) >= 2
    /\ \E i \in 1..Len(ruCur.yielded) :
          /\ ruCur.yielded[i].node.startByte > ruHist.lastQ
          /\ ruCur.yielded[i].node.startByte < ruHist.q

\* the step is a query of a cursor that was queried before
QueryAgain == ruHist'.op \in {"candidates", "reuse"} /\ ruHist'.calls = ruHist.calls + 1
              /\ ruHist.q # NoQuery

\* the traversal did not advance in the step
TraversalKept ==
    /\ ruCur'.stack = ruCur.stack
    /\ ruCur'.next = ruCur.next
    /\ ruCur'.popped = ruCur.popped

\* C25: the cursor is monotonic across any sequence of queries: a repeated
\* candidates(start) at the most recently queried offset returns the same
\* list without advancing the traversal, and a query with start strictly
\* smaller than the most recently queried offset returns an empty list and
\* leaves the traversal stack, the pending node and the cache unchanged.
C25_CursorMonotonic ==
    [][QueryAgain =>
          /\ ruHist'.q = ruHist.q => ruHist'.list = ruHist.list /\ TraversalKept
          /\ ruHist'.q < ruHist.q =>
                /\ ruHist'.list = <<>>
                /\ TraversalKept
                /\ ruCur'.cached = ruCur.cached
                /\ ruCur'.cachedStart = ruCur.cachedStart]_vars

\* C25 witness: a query at the offset of the query before it returned the
\* same list of two nodes or more, while nodes were left to traverse.
C25_Witness ==
    /\ ruPc = "open" /\ ruHist.op = "candidates"
    /\ ruHist.lastQ = ruHist.q
    /\ Len(ruHist.list) >= 2 /\ ruHist.lastList = ruHist.list
    /\ ruCur.next # NilNode

\* the last call was a tryReuseSubtree that grafted a node
Grafted == ruPc = "open" /\ ruHist.op = "reuse" /\ ruHist.ok

\* the node that was grafted and the state pushed with it
GraftedNode == top(ruStack).node

GraftedState == top(ruStack).state

\* the shift in the action list of the grafted leaf, at the state the stack
\* was in
LeafShift == ShiftsOf(lookupAction(ruHist.state, GraftedNode.symbol))[1]

C28_InnerGraftFollowsGoto ==
    Grafted /\ GraftedNode.children # <<>> =>
       /\ lookupGoto(ruHist.state, GraftedNode.symbol) # 0
       /\ lookupGoto(ruHist.state, GraftedNode.symbol) = GraftedNode.parseState
       /\ GraftedState = lookupGoto(ruHist.state, GraftedNode.symbol)

\* C28 witness: an inner node was grafted after an inner candidate before it
\* in the list was passed over, its goto state not being its parse state.
C28_Witness ==
    /\ Grafted /\ GraftedNode.children # <<>>
    /\ \E k \in 1..Len(ruHist.list) :
          /\ ruHist.list[k].children # <<>>
          /\ ruHist.list[k] # GraftedNode
          /\ lookupGoto(ruHist.state, ruHist.list[k].symbol) # 0
          /\ lookupGoto(ruHist.state, ruHist.list[k].symbol) # ruHist.list[k].parseState

\* the graft rule: a leaf needs the lookahead's symbol and a shift, an inner
\* node a goto state equal to its parse state
PassesGraft(state, n, lookahead) ==
    IF n.children = <<>>
    THEN /\ n.symbol = lookahead.Symbol
         /\ \E k \in 1..Len(lookupAction(state, n.symbol)) :
               lookupAction(state, n.symbol)[k].Type = ParseActionShift
    ELSE /\ lookupGoto(state, n.symbol) # 0
         /\ lookupGoto(state, n.symbol) = n.parseState

\* the step is a call of tryReuseSubtree
ReuseCall == ruHist'.op = "reuse" /\ ruHist'.calls = ruHist.calls + 1

\* the token source after k calls of Next, and the token the k-th returned
\* (the lookahead for k = 0)
RECURSIVE NextTimes(_, _, _)
NextTimes(ts, tok, k) ==
    IF k = 0 THEN [ts |-> ts, tok |-> tok]
    ELSE NextTimes(TSNext(ts).ts, TSNext(ts).tok, k - 1)

\* the token ends the discarding: end of input, or at or after endByte
StopsAt(tok, endByte) == tok.Symbol = 0 \/ tok.StartByte >= endByte

\* the lookahead after a graft of n
LookaheadAfter(n) ==
    IF n.endByte = Len(ruTs.src)
    THEN /\ ruTok' = Token(0, Len(ruTs.src), Len(ruTs.src))
         /\ ruTs' = ruTs
    ELSE IF ruTs.skippable
    THEN /\ ruTok' = TSSkipToByte(ruTs, n.endByte).tok
         /\ ruTs' = TSSkipToByte(ruTs, n.endByte).ts
    ELSE \E k \in 0..(Len(ruTs.src) + 1) :
            /\ StopsAt(NextTimes(ruTs, ruTok, k).tok, n.endByte)
            /\ \A j \in 0..(k - 1) : ~StopsAt(NextTimes(ruTs, ruTok, j).tok, n.endByte)
            /\ ruTok' = NextTimes(ruTs, ruTok, k).tok
            /\ ruTs' = NextTimes(ruTs, ruTok, k).ts

\* C29: when tryReuseSubtree succeeds with node N, exactly one entry (target
\* state, N) is pushed on the stack, N being the first candidate in cursor
\* order that passes the graft rule, and the lookahead returned is an EOF
\* token at the source length, the token source not being consumed, when
\* N.end_byte is the source length; otherwise SkipToByte(N.end_byte) of a
\* skippable source, or else the first token, the lookahead given or one
\* obtained by Next, that is EOF or starts at or after N.end_byte.
C29_GraftPushesOneAndAdvances ==
    [][ReuseCall /\ ruHist'.ok =>
          /\ ruStack' = [ruStack EXCEPT !.entries = Append(@, top(ruStack'))]
          /\ \E k \in 1..Len(ruHist'.list) :
                /\ top(ruStack').node = ruHist'.list[k]
                /\ PassesGraft(top(ruStack).state, ruHist'.list[k], ruTok)
                /\ \A j \in 1..(k - 1) :
                      ~PassesGraft(top(ruStack).state, ruHist'.list[j], ruTok)
          /\ LookaheadAfter(top(ruStack').node)]_vars

\* C29 witness: a source that cannot skip; the second candidate or a later
\* one was grafted, it ends before the end of the source, and two tokens or
\* more were read to reach the lookahead returned.
C29_Witness ==
    /\ Grafted /\ ~ruTs.skippable
    /\ GraftedNode # ruHist.list[1]
    /\ GraftedNode.endByte < Len(ruTs.src)
    /\ ruTok.StartByte >= GraftedNode.endByte
    /\ ruTs.lexed >= 3

\* C30: when tryReuseSubtree finds no candidate that passes the graft rule it
\* returns false with the lookahead it was given, and leaves the stack's
\* entries, score and flags unchanged and the token source unconsumed.
C30_NoGraftChangesNothing ==
    [][ReuseCall =>
          /\ ruHist'.ok <=> \E k \in 1..Len(ruHist'.list) :
                               PassesGraft(top(ruStack).state, ruHist'.list[k], ruTok)
          /\ ~ruHist'.ok => ruTok' = ruTok /\ ruStack' = ruStack /\ ruTs' = ruTs]_vars

\* C30 witness: tryReuseSubtree returned false on a list of two candidates or
\* more, inner nodes and a leaf, after the token source had been read.
C30_Witness ==
    /\ ruPc = "open" /\ ruHist.op = "reuse" /\ ~ruHist.ok
    /\ Len(ruHist.list) >= 2
    /\ \E k \in 1..Len(ruHist.list) : ruHist.list[k].children = <<>>
    /\ ruTok = ruHist.given
    /\ ruTs.lexed >= 2

(***************************************************************************)
(* Arena slice slabs: growth and reset.                                    *)
(***************************************************************************)
\* the step appended a slab to the list, whose cursor it leaves at cursor
FreshSlabDoubled(slabs, grown, cursor, capacity) ==
    Len(grown) > Len(slabs) /\ Len(slabs) > 0 =>
       /\ Len(grown) = Len(slabs) + 1
       /\ Len(grown[Len(grown)].data) = 2 * Len(slabs[Len(slabs)].data)
       /\ Len(grown[Len(grown)].data) >= capacity
       /\ cursor = Len(grown) - 1

\* C31: when an arena slice allocation (allocNodeSlice or allocFieldIDSlice)
\* fits in no existing slab from the cursor on, the fresh slab that is
\* appended has double the capacity of the previous slab and never less than
\* the class default, and the slab cursor is advanced to it.
C31_FreshSlabDoubles ==
    [][/\ FreshSlabDoubled(childSlabs, childSlabs', childSlabCursor', defaultChildSliceCap)
       /\ FreshSlabDoubled(fieldSlabs, fieldSlabs', fieldSlabCursor', defaultFieldSliceCap)]_vars

\* the retention cap of the slice slabs: two default slabs
RetentionCap == 2 * SlabCap

RECURSIVE TotalCap(_)
TotalCap(slabs) == IF slabs = <<>> THEN 0 ELSE Len(Head(slabs).data) + TotalCap(Tail(slabs))

\* the arena has just been reset
JustReset == slabHist.resets > 0 /\ slabHist.last = NoSlabCall /\ LiveCount = 0

\* reset left the slabs empty: nothing used, the cursors at the first slab
ResetEmptied ==
    /\ childSlabCursor = 0 /\ fieldSlabCursor = 0
    /\ \A i \in 1..Len(childSlabs) :
          childSlabs[i].used = 0 /\ \A j \in 1..Len(childSlabs[i].data) : childSlabs[i].data[j] = 0
    /\ \A i \in 1..Len(fieldSlabs) : fieldSlabs[i].used = 0

\* reset kept no more than the retention cap, or one slab of the default size
ResetRetained(slabs, capacity) ==
    TotalCap(slabs) <= RetentionCap \/ (Len(slabs) = 1 /\ Len(slabs[1].data) = capacity)

\* C32: after the arena is reset on its last release all used counts and slab
\* cursors are zero and every child-pointer entry handed out before is
\* zeroed, and the slice capacity the arena retains is bounded: when the
\* total capacity of its child or field slabs exceeds the retention cap, the
\* extra slabs are dropped and the first slab is rebuilt at the class default
\* size.
C32_ResetBoundsRetention ==
    JustReset =>
       /\ ResetEmptied
       /\ ResetRetained(childSlabs, defaultChildSliceCap)
       /\ ResetRetained(fieldSlabs, defaultFieldSliceCap)

(***************************************************************************)
(* Hand-written token sources: the sequence of Next results.               *)
(***************************************************************************)
\* a TOML source whose document-start and line-end symbols are defined was
\* never skipped and has returned EOF
TomlRunEnded ==
    /\ lexTs.kind = "toml" /\ lexHist.pure /\ lexHist.sawEOF
    /\ lexTs.docStartSym # 0 /\ lexTs.lineEndSym # 0

\* the places of toks that hold the zero-width token of the symbol at byte at
SyntheticAt(toks, sym, at) == {i \in 1..Len(toks) : toks[i] = Token(sym, at, at)}

\* the run began with the document start, returned it once, and returned
\* nothing but EOF after the first EOF
DocStartOnce(toks) ==
    /\ Len(toks) >= 1 /\ toks[1] = Token(lexTs.docStartSym, 0, 0)
    /\ \A i \in 2..Len(toks) : toks[i].Symbol # lexTs.docStartSym
    /\ lexHist.sticky

\* the synthetic line end is returned times times, as the last token
LineEndTimes(toks, times) ==
    /\ Cardinality(SyntheticAt(toks, lexTs.lineEndSym, Len(lexTs.src))) = times
    /\ times = 1 => toks[Len(toks)] = Token(lexTs.lineEndSym, Len(lexTs.src), Len(lexTs.src))
    /\ \A i \in 2..(Len(toks) - times) : toks[i].EndByte > toks[i].StartByte

\* the last byte of the source is a newline
EndsInNewline(src) == Len(src) > 0 /\ src[Len(src)] = "\n"

\* the last byte of the source is a newline that was returned as a line-end token
NewlineTokenEnds(toks, src) ==
    EndsInNewline(src) /\ \E i \in 1..Len(toks) : toks[i] = Token(lexTs.lineEndSym, Len(src) - 1, Len(src))

\* C33 as stated: a fresh TomlTokenSource whose document-start and line-end
\* symbols are defined returns one zero-width document-start token at byte 0,
\* then the tokens of the source, then one zero-width line-end token at
\* len(source) unless the last byte of the source is a newline, then EOF on
\* every further call.
C33_SyntheticUnlessNewlineByte ==
    TomlRunEnded =>
       /\ DocStartOnce(lexHist.toks)
       /\ LineEndTimes(lexHist.toks, IF EndsInNewline(lexTs.src) THEN 0 ELSE 1)

\* C33 amended: the zero-width line-end token at len(source) is left out only
\* when the last byte of the source is a newline that was itself returned as
\* a line-end token; a final newline inside another token (an unterminated
\* quoted string) is followed by the zero-width line-end token.
C33_SyntheticUnlessNewlineToken ==
    TomlRunEnded =>
       /\ DocStartOnce(lexHist.toks)
       /\ LineEndTimes(lexHist.toks, IF NewlineTokenEnds(lexHist.toks, lexTs.src) THEN 0 ELSE 1)

\* C33 witness: the run over a source that ends in a newline token has ended
\* after the document start, two tokens and no zero-width line end, and a
\* further Next returned EOF again.
C33_Witness ==
    /\ TomlRunEnded
    /\ lexTs.src = <<"a", "\n">>
    /\ Len(lexHist.toks) = 3
    /\ lexHist.toks[3] = Token(lexTs.lineEndSym, 1, 2)
    /\ lexHist.op = "next" /\ lexTs.done

(***************************************************************************)
(* Hand-written token sources: SkipToByte against sequential Next calls.   *)
(***************************************************************************)
\* the source as its constructor made it
FreshSource == NewSourceOf(lexTs.kind, lexTs.src, lexHist.lang).ts

\* the results of repeated Next calls, r the first of them, up to the first EOF
RECURSIVE NextRunFrom(_, _)
NextRunFrom(r, fuel) ==
    IF ReturnsEOF(r) \/ fuel = 0 THEN <<r>>
    ELSE <<r>> \o NextRunFrom(NextOf(r.ts), fuel - 1)

\* the sequential tokenization of the source of ts
NextRun(ts) == NextRunFrom(NextOf(ts), 2 * Len(ts.src) + 3)

\* some token of the run starts at the offset
TokenBoundary(run, offset) == \E i \in 1..Len(run) : run[i].tok.StartByte = offset

\* the first result of the run whose token starts at or after the offset
FirstAtOrAfter(run, offset) ==
    CHOOSE i \in 1..Len(run) :
        /\ run[i].tok.StartByte >= offset
        /\ \A k \in 1..(i - 1) : run[k].tok.StartByte < offset

TagMode(ts) == <<ts.inTag, ts.inEndTag, ts.expectTagName>>

\* the skip returned what the run returns at the offset, in the same tag mode
HTMLSkipAgrees(run, offset) ==
    TokenBoundary(run, offset) =>
       /\ lexTok = run[FirstAtOrAfter(run, offset)].tok
       /\ TagMode(lexTs) = TagMode(run[FirstAtOrAfter(run, offset)].ts)

\* C34: after HTMLTokenSource.SkipToByte(offset), forward or rewinding, the
\* tag mode (inTag, inEndTag, expectTagName) is the one a fresh source has
\* when sequential Next calls reach the offset: for every offset that is a
\* token boundary of the sequential tokenization the token returned has the
\* symbol and span of the token the sequential tokenization produces there.
C34_HTMLSkipAsSequential ==
    (lexHist.op = "skip" /\ lexTs.kind = "html") => HTMLSkipAgrees(NextRun(FreshSource), lexHist.offset)

\* the tokens of the results from place i on; EOF again after the EOF
TokensFrom(run, i) ==
    IF i > Len(run) THEN <<run[Len(run)].tok>>
    ELSE [k \in 1..(Len(run) - i + 1) |-> run[i + k - 1].tok]

\* the skip returned the token the run has at place i and left a source whose
\* further Next calls return the tokens the run has after it
SkipAgreesAt(run, i) ==
    /\ lexTok = run[i].tok
    /\ TokensFrom(NextRun(lexTs), 1) = TokensFrom(run, i + 1)

\* C35: for TomlTokenSource skipping and discarding are interchangeable: for
\* every offset in [0, len(source)] that is a token boundary, SkipToByte
\* returns the first token with StartByte >= offset that repeated Next calls
\* on a fresh source return, and the later Next calls agree as well, the
\* synthetic document-start and end-of-input line-end tokens included.
C35_TomlSkipAsDiscard ==
    (/\ lexHist.op = "skip" /\ lexTs.kind = "toml"
     /\ lexHist.offset <= Len(lexTs.src)
     /\ TokenBoundary(NextRun(FreshSource), lexHist.offset)) =>
        SkipAgreesAt(NextRun(FreshSource), FirstAtOrAfter(NextRun(FreshSource), lexHist.offset))

(***************************************************************************)
(* GLR stack merging: the input in the array of the scratch.               *)
(***************************************************************************)
\* the live stacks of a list, in order
LiveOnes(list) == SelectSeq(list, LAMBDA s : ~s.dead)

\* the merge of an independent copy of the list
MergeOfCopy(list) == MergeBy(LiveOnes(list), Len(LiveOnes(list)) > LinearMergeMax)

\* C38: mergeStacksWithScratch computes the same surviving stacks when its
\* input shares the backing array of the scratch result (the input is the
\* slice the previous merge returned) as for an independent copy: the
\* compaction of the live stacks in place and the writes of results never
\* overwrite an input stack before it has been read.
C38_AliasedMergeAsCopy ==
    (mergeHist.withScratch /\ mergeHist.round = 2) => mergeHist.out = MergeOfCopy(mergeHist.input)

\* C38 witness: the second merge ran in the array of the first, in the
\* hashed regime, and replaced the first stack kept by a later stack of the
\* same top state and a higher score.
C38_HashedWitness ==
    /\ mergeHist.aliased /\ mergeHist.round = 2
    /\ mergeHist.path = "hashed"
    /\ Len(mergeHist.out) = LinearMergeMax
    /\ ForkOf(mergeHist.out[1]) # ForkOf(mergeHist.input[1])

(***************************************************************************)
(* Hand-written token sources: termination and order of the tokens.        *)
(***************************************************************************)
\* what a source has left to return: two for every byte after the cursor,
\* one for every synthetic token not yet returned and every queued token
LeftToReturn(ts) ==
    2 * (Len(ts.src) - ts.offset)
    + (CASE ts.kind = "toml" ->
               (IF ts.docStartSym # 0 /\ ~ts.emittedDocStart THEN 1 ELSE 0)
               + (IF ts.lineEndSym # 0 /\ ~ts.emittedEOFLineEnd THEN 1 ELSE 0)
         [] ts.kind = "generic" -> Len(ts.pending)
         [] OTHER -> 0)

\* a Next call that did not return EOF left less to return
NextAdvances ==
    (lexHist'.op = "next" /\ lexTs.kind \in LexKinds) =>
        \/ ReturnsEOF([ts |-> lexTs', tok |-> lexTok'])
        \/ LeftToReturn(lexTs') < LeftToReturn(lexTs)

\* a Next call after EOF, with no SkipToByte between, returned EOF
EOFSticks ==
    (lexHist.sawEOF /\ lexHist.op = "next" /\ lexTs.kind \in LexKinds) =>
        (lexHist'.op = "next" => ReturnsEOF([ts |-> lexTs', tok |-> lexTok']))

\* C39: for the TOML, HTML and generic token sources every Next call
\* terminates, each pass of its loop returning a token or moving the cursor
\* forward (an unrecognised byte is consumed without a token): a call that
\* does not return EOF leaves less to return, so EOF is reached after
\* finitely many calls, and once EOF was returned every later Next without a
\* SkipToByte between returns EOF again.
C39_NextReachesEOF == [][NextAdvances /\ EOFSticks]_vars

\* C39 witness: Next consumed an unrecognised byte without a token, returned
\* the key after it, and the run has since returned EOF twice.
C39_Witness ==
    /\ lexTs.kind = "toml" /\ lexHist.pure /\ lexHist.sawEOF /\ lexTs.done
    /\ lexTs.src = <<"@", "a">>
    /\ \E i \in 1..Len(lexHist.toks) : lexHist.toks[i] = Token(lexTs.bareKeySym, 1, 2)
    /\ lexHist.sticky

\* C40: the tokens returned by successive Next calls of a hand-written token
\* source, with no SkipToByte between, are in source order and never
\* overlap: every token has StartByte <= EndByte <= len(source) and starts at
\* or after the EndByte of the token returned before it, the tokens queued
\* for the parts of a split string (opening quote, content and escape
\* segments, closing quote) included.
C40_TokensInSourceOrder == (lexTs.kind \in LexKinds) => lexHist.inOrder

\* C40 witness: the generic source returned the parts of the split string
\* "s\nt" one by one: the quote, s, the escape, t and the closing quote.
C40_Witness ==
    /\ lexTs.kind = "generic" /\ lexHist.pure /\ lexHist.inOrder
    /\ Len(lexHist.toks) >= 5
    /\ lexHist.toks[1] = Token(lexTs.doubleQuoteSym, 0, 1)
    /\ lexHist.toks[2] = Token(lexTs.stringContent, 1, 2)
    /\ lexHist.toks[3] = Token(lexTs.escapeSym, 2, 4)
    /\ lexHist.toks[4] = Token(lexTs.stringContent, 4, 5)
    /\ lexHist.toks[5] = Token(lexTs.doubleQuoteSym, 5, 6)

====
